---------------------------- MODULE Spec2Model ----------------------------
(***************************************************************************)
(* Model of the per-tab LLM session context of workflow_editor             *)
(* (llm/tab_context.py), its output contracts (llm/output_contracts.py)    *)
(* and the asynchronous task path of the tabs (tabs/text_json_tab.py,      *)
(* tabs/json_code_tab.py, main_window.LLMWorker).                           *)
(*                                                                         *)
(* Optional strings of the program (None) are the string None below, so    *)
(* that every value of a field has one type.  Artifact contents and rule   *)
(* texts are short strings; md5 is modelled as an injective tagging of     *)
(* the content.                                                            *)
(***************************************************************************)
EXTENDS Integers, Sequences, FiniteSets, TLC

(***************************************************************************)
(* Bounds of the model.                                                    *)
(***************************************************************************)
MaxMessages == 2
MaxTokens == 1

(***************************************************************************)
(* Values.                                                                 *)
(***************************************************************************)
None == "None"

Tabs == {"text_json", "json_code"}

Kinds == {"procedure_text", "procedure_json", "test_code"}

\* Artifact.content is a str, "" by default (core/artifact_manager.py).
Contents == {"", "a", "b"}

\* LLMTask values (llm/backend_base.py).
LLMTask ==
  {"derive_json_from_code", "generate_code_from_json", "review_json",
   "review_code_vs_json", "render_text_from_json", "review_text_procedure",
   "derive_json_from_text", "ad_hoc_chat", "review_code",
   "review_text_vs_json"}

Range(s) == {s[i] : i \in 1..Len(s)}

\* A list that is None in the program.
NoList == <<None>>

md5(c) == "md5:" \o c

(***************************************************************************)
(* Fixed tables.                                                           *)
(***************************************************************************)
TASK_ARTIFACT_REQUIREMENTS(task) ==
  CASE task = "derive_json_from_text"   -> <<"procedure_text">>
    [] task = "render_text_from_json"   -> <<"procedure_json">>
    [] task = "review_text_procedure"   -> <<"procedure_text">>
    [] task = "review_json"             -> <<"procedure_json">>
    [] task = "review_text_vs_json"     -> <<"procedure_text", "procedure_json">>
    [] task = "generate_code_from_json" -> <<"procedure_json">>
    [] task = "derive_json_from_code"   -> <<"test_code">>
    [] task = "review_code"             -> <<"test_code">>
    [] task = "review_code_vs_json"     -> <<"procedure_json", "test_code">>
    [] task = "ad_hoc_chat"             -> NoList

get_allowed_artifacts(tab) ==
  CASE tab = "text_json" -> <<"procedure_text", "procedure_json">>
    [] tab = "json_code" -> <<"procedure_json", "test_code">>

TASK_OUTPUT_CONTRACTS(task) ==
  CASE task = "derive_json_from_text"   -> <<"procedure_json">>
    [] task = "render_text_from_json"   -> <<"procedure_text">>
    [] task = "review_text_procedure"   -> <<"procedure_text">>
    [] task = "review_json"             -> <<"procedure_json">>
    [] task = "review_text_vs_json"     -> <<"procedure_text", "procedure_json">>
    [] task = "generate_code_from_json" -> <<"test_code">>
    [] task = "derive_json_from_code"   -> <<"procedure_json">>
    [] task = "review_code"             -> <<"test_code">>
    [] task = "review_code_vs_json"     -> <<"procedure_json", "test_code">>
    [] task = "ad_hoc_chat"             -> NoList

\* A lookup that finds no fixed expectation for any task.
expects_anything(task) == NoList

\* A lookup that expects no artifact of any task.
expects_nothing(task) == <<>>

get_task_expected_artifacts(task) == TASK_OUTPUT_CONTRACTS(task)

\* The tasks a tab starts: its task buttons and the chat box.
TabTasks(tab) ==
  CASE tab = "text_json" ->
         {"derive_json_from_text", "render_text_from_json",
          "review_text_procedure", "review_json", "review_text_vs_json",
          "ad_hoc_chat"}
    [] tab = "json_code" ->
         {"generate_code_from_json", "derive_json_from_code", "review_json",
          "review_code", "review_code_vs_json", "ad_hoc_chat"}


(***************************************************************************)
(* State.                                                                  *)
(***************************************************************************)
VARIABLES
  tab_id,               \* TabContext.tab_id
  content,              \* artifact_manager.<kind>.content, per kind
  rule_files,           \* text of each rule file under rules_root, None if absent
  tab_config,           \* TabContext.tab_config["selected_rules"]
  messages,             \* TabContext.messages, the role of each ChatMessage
  cumulative_tokens,    \* TabContext.cumulative_tokens
  artifact_checksums,   \* TabContext._artifact_checksums, None where no entry
  first_interaction,    \* TabContext._first_interaction
  rules_checksum,       \* TabContext._rules_checksum
  current_task,         \* TabContext._current_task
  last_content,         \* _last_text_content, _last_json_content, _last_code_content
  rules_sent,           \* TabContext._rules_sent
  worker,               \* the tab's LLMWorker: "none" or "running"
  request,              \* the LLMRequest the last operation built
  response,             \* the LLMResponse the last operation returned
  obs,                  \* history: the last operation and what held before it
  h_kind,               \* history: the artifact kind whose history is followed
  h_marked,             \* history: h_kind marked modified since last included
  h_unchanged,          \* history: h_kind was included, content as included
  h_reset,              \* history: reset_conversation since h_kind last included
  h_fresh,              \* history: no Request built since reset_conversation
  h_rules_selected,     \* history: set_selected_rules called, no Request built since
  h_rules_ok,           \* history: "built" rules text as last included, "sent" and
                        \* sent with success, no reset or re-selection since
  backend,              \* the backend's _cancel_requested and its send_request
  llm_worker,           \* the tab's LLMWorker thread: _cancelled, where run() is
  signals,              \* signals emitted by workers, queued for the GUI thread
  manager,              \* the OpenCodeServerManager shared by the tabs
  opencode,             \* the OpenCodeBackend of each tab
  servers,              \* the server processes of the machine and the port
  prompt                \* the sections of the last prompt PromptBuilder built

prog_vars ==
  <<tab_id, content, rule_files, tab_config, messages, cumulative_tokens,
    artifact_checksums, first_interaction, rules_checksum, current_task,
    last_content, rules_sent, worker, request, response>>

hist_vars ==
  <<obs, h_kind, h_marked, h_unchanged, h_reset, h_fresh, h_rules_selected,
    h_rules_ok>>

backend_vars == <<backend, llm_worker, signals>>

service_vars == <<manager, opencode, servers, prompt>>

vars == <<prog_vars, hist_vars, backend_vars, service_vars>>

(***************************************************************************)
(* Rules of the tab (project_manager, get_selected_rules_content).         *)
(***************************************************************************)
\* The rule files a project can hold, in directory order.
RuleNames == <<"r1">>

RuleTexts == {"x", "y"}

\* tab_config["selected_rules"] is "all" or a list of file names.
ALL == <<"all">>

RuleLists == {<<>>, <<"r1">>}

\* The *.md files found under rules_root when the rules were loaded.
get_rules_files == RuleNames

get_expanded_selected_rules(cfg) == IF cfg = ALL THEN get_rules_files ELSE cfg

get_selected_rules == get_expanded_selected_rules(tab_config)

RECURSIVE JoinRules(_)
JoinRules(names) ==
  IF names = <<>> THEN ""
  ELSE LET f == Head(names)
           rest == JoinRules(Tail(names))
           part == IF f \in DOMAIN rule_files /\ rule_files[f] # None
                   THEN "#" \o f \o ":" \o rule_files[f] ELSE ""
       IN  IF part = "" THEN rest
           ELSE IF rest = "" THEN part ELSE part \o "\n" \o rest

\* None when nothing is selected or no selected file exists.
get_selected_rules_content ==
  LET selected_filenames == get_selected_rules
      joined == JoinRules(selected_filenames)
  IN  IF selected_filenames = <<>> \/ joined = "" THEN None ELSE joined

\* A comparison that needs a stored checksum to see a change.
_has_rules_changed_by_text(current_rules_content) ==
  /\ current_rules_content # None
  /\ rules_checksum # None
  /\ md5(current_rules_content) # rules_checksum

_has_rules_changed(current_rules_content) ==
  IF current_rules_content = None THEN rules_checksum # None
  ELSE IF rules_checksum = None THEN TRUE
  ELSE md5(current_rules_content) # rules_checksum

\* Python truthiness of an optional string.
Truthy(s) == s # None /\ s # ""

(***************************************************************************)
(* Conditional inclusion of artifacts.                                     *)
(***************************************************************************)
_get_required_artifacts_for_task(task) ==
  LET required == TASK_ARTIFACT_REQUIREMENTS(task)
  IN  IF required = NoList THEN get_allowed_artifacts(tab_id) ELSE required

\* A comparison that takes a missing checksum for "not modified".
is_artifact_modified_if_known(sums, artifact_name, c) ==
  sums[artifact_name] # None /\ sums[artifact_name] # md5(c)

is_artifact_modified(sums, artifact_name, c) == sums[artifact_name] # md5(c)

\* A decision that sends whatever is required.
should_send_always(sums, first, artifact_name, force) == TRUE

\* A decision that does not look at force.
should_send_without_force(sums, first, artifact_name, force) ==
  IF first THEN TRUE
  ELSE is_artifact_modified(sums, artifact_name, content[artifact_name])

should_send_artifact(sums, first, artifact_name, force) ==
  IF force THEN TRUE
  ELSE IF first THEN TRUE
  ELSE IF content[artifact_name] = None THEN FALSE
  ELSE is_artifact_modified(sums, artifact_name, content[artifact_name])

\* mark_artifact_sent on the running state acc of one _build_request.
mark_artifact_sent(acc, artifact_name, c) ==
  [acc EXCEPT !.checksums[artifact_name] = md5(c), !.first = FALSE]

\* One "if <kind> in required_artifacts" block.
IncludeStep(acc, artifact_name, required_artifacts, force) ==
  IF /\ artifact_name \in Range(required_artifacts)
     /\ Truthy(content[artifact_name])
     /\ should_send_artifact(acc.checksums, acc.first, artifact_name, force)
  THEN LET sent == mark_artifact_sent(acc, artifact_name, content[artifact_name])
       IN  [sent EXCEPT !.context[artifact_name] = content[artifact_name]]
  ELSE acc

_build_conditional_artifact_context(required_artifacts, force) ==
  LET acc0 == [context |-> [k \in Kinds |-> None],
               checksums |-> artifact_checksums,
               first |-> first_interaction]
      acc1 == IncludeStep(acc0, "procedure_text", required_artifacts, force)
      acc2 == IncludeStep(acc1, "procedure_json", required_artifacts, force)
  IN  IncludeStep(acc2, "test_code", required_artifacts, force)


(***************************************************************************)
(* Requests and responses.                                                 *)
(***************************************************************************)
NoRequest ==
  [task |-> None, strict_mode |-> FALSE, user_message |-> "",
   procedure_text |-> None, procedure_json |-> None, test_code |-> None,
   rules_content |-> None]

\* The artifact field of a request (or the proposal field of a response).
Field(r, k) ==
  CASE k = "procedure_text" -> r.procedure_text
    [] k = "procedure_json" -> r.procedure_json
    [] k = "test_code"      -> r.test_code

\* A proposal the parser dropped, or that the reply did not hold.
NoProposal == [mode |-> None, content |-> None]

\* total_tokens of a reply whose usage object holds "total_tokens": null:
\* usage.get("total_tokens", 0) is then None, which is no number.
NoTokens == -1

NoError == [kind |-> "", names |-> <<>>, listed |-> <<>>]

Error(kind) == [kind |-> kind, names |-> <<>>, listed |-> <<>>]

NoResponse ==
  [success |-> FALSE, error_message |-> NoError, assistant_message |-> "",
   total_tokens |-> 0, procedure_text |-> NoProposal,
   procedure_json |-> NoProposal, test_code |-> NoProposal]

\* "response.<kind> and response.<kind>.mode": the kind is proposed.
Proposed(resp, k) == Field(resp, k) # NoProposal /\ Truthy(Field(resp, k).mode)

\* The kinds of a list that the response proposes, in the order of the checks.
Violations(resp, permitted) ==
  SelectSeq(<<"procedure_text", "procedure_json", "test_code">>,
            LAMBDA k : Proposed(resp, k) /\ k \notin Range(permitted))

_validate_contract(resp, task) ==
  LET allowed == get_allowed_artifacts(tab_id)
      tab_violations == Violations(resp, allowed)
      expected == get_task_expected_artifacts(task)
      task_violations == Violations(resp, expected)
  IN  IF tab_violations # <<>>
      THEN [resp EXCEPT !.success = FALSE,
                        !.error_message = [kind |-> "tab_contract",
                                           names |-> tab_violations,
                                           listed |-> allowed]]
      ELSE IF task # None /\ expected # NoList /\ task_violations # <<>>
      THEN [resp EXCEPT !.success = FALSE,
                        !.error_message = [kind |-> "task_contract",
                                           names |-> task_violations,
                                           listed |-> expected]]
      ELSE resp

(***************************************************************************)
(* _build_request: the Request and the state it leaves.                    *)
(***************************************************************************)
_build_request(task, user_message, strict_mode, force) ==
  LET current_rules_content == get_selected_rules_content
      rules_changed == _has_rules_changed(current_rules_content)
      include_rules == first_interaction \/ force \/ rules_changed
      rules_content == IF include_rules THEN current_rules_content ELSE None
      required_artifacts == _get_required_artifacts_for_task(task)
      acc == _build_conditional_artifact_context(required_artifacts, force)
  IN  [request |->
         [task |-> task,
          strict_mode |-> IF force THEN FALSE ELSE strict_mode,
          user_message |-> IF Truthy(user_message) THEN user_message ELSE "",
          procedure_text |-> acc.context["procedure_text"],
          procedure_json |-> acc.context["procedure_json"],
          test_code |-> acc.context["test_code"],
          rules_content |-> rules_content],
       checksums |-> acc.checksums,
       first |-> acc.first,
       rules_checksum |-> IF Truthy(rules_content) THEN md5(rules_content)
                          ELSE rules_checksum]

\* _update_optimization_state, for one kind.
UpdatedLast(req, k) ==
  IF Truthy(Field(req, k)) THEN Field(req, k) ELSE last_content[k]

Included(req) == {k \in Kinds : Field(req, k) # None}

(***************************************************************************)
(* ResponseParser.  A raw reply is a text: a sequence of characters, where *)
(* a fence, a proposal entry and a stretch of prose are one character      *)
(* each.  A raw reply that is a provider envelope is held decoded, as the  *)
(* list of its parts, which is what json.loads(raw.strip()) makes of it.   *)
(***************************************************************************)
MaxText == 2

Quote == "\""

NL == "\n"

\* The fence of three backquotes, written ~~~ here.
FenceJson == "~~~json"

Fence == "~~~"

Prose == "prose"

\* The characters of a string value: a letter and the two braces.
Chars == {"a", "{", "}"}

Texts == UNION {[1..n -> Chars] : n \in 0..MaxText}

\* The string a sequence of characters spells.
RECURSIVE Str(_)
Str(s) == IF s = <<>> THEN "" ELSE s[1] \o Str(Tail(s))

\* The value of proposals.<kind> in a reply object: the key absent, {} or
\* an object whose mode and content are None when missing or null.
Entry(given, mode, text) ==
  [given |-> given, mode |-> mode, content |-> text]

Absent == Entry("absent", None, None)

Entries ==
  {Absent, Entry("empty", None, None), Entry("object", None, None),
   Entry("object", "replace", None), Entry("object", None, "new"),
   Entry("object", "replace", "new")}

\* json.dumps of an entry, one character of the text: its braces are
\* balanced and stand outside every string.
dumps_entry(e) ==
  CASE e.given = "absent" -> "-"
    [] e.given = "empty" -> "{}"
    [] OTHER -> "{mode:" \o e.mode \o ",content:" \o e.content \o "}"

loads_entry(c) == CHOOSE e \in Entries : dumps_entry(e) = c

EntryChars == {dumps_entry(e) : e \in Entries}

KindOrder == <<"procedure_json", "test_code", "procedure_text">>

\* A reply object: the assistant message and the proposals, by kind.
ReplyObject(assistant_message, proposals) ==
  [assistant_message |-> assistant_message, proposals |-> proposals]

NoReply == ReplyObject(<<>>, [k \in Kinds |-> Absent])

\* json.dumps(object): { "message" entry entry entry }.
dumps(o) ==
  <<"{", Quote>> \o o.assistant_message \o <<Quote>>
    \o [i \in 1..3 |-> dumps_entry(o.proposals[KindOrder[i]])] \o <<"}">>

\* json.loads accepts s: braces inside the string value are its contents.
IsJson(s) ==
  /\ Len(s) >= 7
  /\ s[1] = "{" /\ s[2] = Quote
  /\ \A i \in 3..(Len(s) - 5) : s[i] \in Chars
  /\ s[Len(s) - 4] = Quote
  /\ \A i \in (Len(s) - 3)..(Len(s) - 1) : s[i] \in EntryChars
  /\ s[Len(s)] = "}"

\* json.loads(s) of a text that IsJson.
loads(s) ==
  ReplyObject(SubSeq(s, 3, Len(s) - 5),
              [k \in Kinds |->
                 loads_entry(s[Len(s) - 4 + CHOOSE i \in 1..3 : KindOrder[i] = k])])

\* str.strip(): the text without the line ends around it.
RECURSIVE strip(_)
strip(s) ==
  IF s = <<>> THEN s
  ELSE IF s[1] = NL THEN strip(Tail(s))
  ELSE IF s[Len(s)] = NL THEN strip(SubSeq(s, 1, Len(s) - 1))
  ELSE s

\* A part of a provider envelope.
Part(type, body) == [type |-> type, body |-> body]

Raw(envelope, parts, chars) ==
  [envelope |-> envelope, parts |-> parts, chars |-> chars]

Text(chars) == Raw(FALSE, <<>>, chars)

Envelope(parts) == Raw(TRUE, parts, <<>>)

NoRaw == Text(<<>>)

\* The parts of an envelope that hold a JSON object, in order.
JsonParts(parts) ==
  SelectSeq(parts, LAMBDA part :
    \/ part.type = "thinking" /\ part.body # <<>> /\ part.body[1] = "{"
         /\ IsJson(part.body)
    \/ part.type = "text" /\ strip(part.body) # <<>>
         /\ strip(part.body)[1] = "{" /\ IsJson(part.body))

\* brace_count after the first i characters: every brace counts, those of
\* string values included.
brace_count(s, i) ==
  Cardinality({j \in 1..i : s[j] = "{"}) - Cardinality({j \in 1..i : s[j] = "}"})

\* The positions where the scan returns: a "}" that brings the count to 0.
Closes(s) == {i \in 1..Len(s) : s[i] = "}" /\ brace_count(s, i) = 0}

Min(S) == CHOOSE i \in S : \A j \in S : i <= j

Max(S) == CHOOSE i \in S : \A j \in S : i >= j

\* re.search of "<open>\s*\n(.*?)\n~~~": the leftmost opening fence that a
\* closing one follows, and lazily the nearest closing one.
Fenced(s, open) ==
  LET Opens == {i \in 1..Len(s) : s[i] = open /\ i + 1 <= Len(s) /\ s[i + 1] = NL
                  /\ \E j \in (i + 2)..(Len(s) - 1) : s[j] = NL /\ s[j + 1] = Fence}
      i == Min(Opens)
      j == Min({j \in (i + 2)..(Len(s) - 1) : s[j] = NL /\ s[j + 1] = Fence})
  IN  IF Opens = {} THEN <<>> ELSE SubSeq(s, i + 2, j - 1)

\* re.search of "\{[\s\S]*\}": from the first "{" to the last "}" after it.
Braced(s) ==
  LET Opens == {i \in 1..Len(s) : s[i] = "{" /\ \E j \in (i + 1)..Len(s) : s[j] = "}"}
  IN  IF Opens = {} THEN <<>>
      ELSE SubSeq(s, Min(Opens), Max({j \in 1..Len(s) : s[j] = "}"}))

\* The three patterns in order, the first whose match json.loads accepts.
Patterns(s) ==
  LET found == SelectSeq(<<Fenced(s, FenceJson), Fenced(s, Fence), Braced(s)>>,
                         IsJson)
  IN  IF found = <<>> THEN NoList ELSE found[1]

\* _extract_json(raw): the JSON text, or NoList for None.
_extract_json(raw) ==
  IF raw.envelope
  THEN IF JsonParts(raw.parts) = <<>> THEN NoList
       ELSE JsonParts(raw.parts)[1].body
  ELSE IF strip(raw.chars) # <<>> /\ strip(raw.chars)[1] = "{"
            /\ Closes(strip(raw.chars)) # {}
       THEN SubSeq(strip(raw.chars), 1, Min(Closes(strip(raw.chars))))
       ELSE Patterns(raw.chars)

IsFence(c) == c \in {Fence, FenceJson}

\* re.sub of "~~~[\s\S]*?~~~" by "": the text without its fenced blocks.
RECURSIVE RemoveBlocks(_)
RemoveBlocks(s) ==
  IF s = <<>> THEN s
  ELSE IF IsFence(s[1]) /\ \E j \in 2..Len(s) : IsFence(s[j])
       THEN RemoveBlocks(SubSeq(s, Min({j \in 2..Len(s) : IsFence(s[j])}) + 1,
                                Len(s)))
       ELSE <<s[1]>> \o RemoveBlocks(Tail(s))

\* _extract_text_message(raw): what is shown when nothing was parsed.
_extract_text_message(raw) ==
  LET texts == SelectSeq(raw.parts, LAMBDA part :
                           part.type = "text" /\ part.body # <<>>)
      text == strip(RemoveBlocks(raw.chars))
  IN  IF raw.envelope /\ texts # <<>> THEN Str(texts[1].body)
      ELSE IF raw.envelope THEN "envelope"
      ELSE IF text # <<>> THEN Str(text)
      ELSE "Received response but could not parse it."

\* A parse that takes an entry without a mode for a replacement.
_parse_proposal_default_mode(proposal_data) ==
  IF proposal_data.given # "object" \/ proposal_data.content = None
  THEN NoProposal
  ELSE [mode |-> IF proposal_data.mode = None THEN "replace"
                 ELSE proposal_data.mode,
        content |-> proposal_data.content]

\* _parse_proposal(proposal_data).
_parse_proposal(proposal_data) ==
  IF proposal_data.given # "object" THEN NoProposal
  ELSE IF proposal_data.mode = None \/ proposal_data.content = None
       THEN NoProposal
  ELSE [mode |-> proposal_data.mode, content |-> proposal_data.content]

(***************************************************************************)
(* Token usage of a provider reply (LLMBackend._extract_token_usage).      *)
(***************************************************************************)
\* JSON values as Python sees them.  A key that is missing reads as JAbsent.
JAbsent == [json |-> "absent", n |-> 0, has_key |-> FALSE, f |-> <<>>]

JNull == [json |-> "null", n |-> 0, has_key |-> FALSE, f |-> <<>>]

JNum(n) == [json |-> "number", n |-> n, has_key |-> FALSE, f |-> <<>>]

\* A string; has_key says whether a key name is a part of it.
JStr(has_key) == [json |-> "string", n |-> 0, has_key |-> has_key, f |-> <<>>]

\* An object with the three counts of a usage shape, in the order
\* prompt_tokens, completion_tokens, total_tokens or input, output, reasoning.
JObj(a, b, c) == [json |-> "object", n |-> 0, has_key |-> FALSE, f |-> <<a, b, c>>]

\* The values of one count: missing, null, a number.
Counts == {JAbsent, JNull, JNum(1)}

\* The values under "usage" or "tokens".
UsageValues ==
  {JAbsent, JNull, JNum(0), JNum(1), JStr(FALSE), JStr(TRUE)}
    \cup {JObj(a, b, c) : a \in Counts, b \in Counts, c \in Counts}

\* response_data with its keys usage, tokens, info; info is missing, no
\* object, or an object whose "tokens" is info_tokens.
Data(usage, tokens, info, info_tokens) ==
  [usage |-> usage, tokens |-> tokens, info |-> info,
   info_tokens |-> info_tokens]

NoData == Data(JAbsent, JAbsent, JAbsent, JAbsent)

\* The result of a call: the tuple returned, or an exception.
Returned(p, c, t) == [raised |-> FALSE, counts |-> <<p, c, t>>]

Raised == [raised |-> TRUE, counts |-> <<>>]

NoCounts == Returned(JNum(0), JNum(0), JNum(0))

\* bool(v) of Python: None, 0 and the empty dict are false.
truthy(v) ==
  CASE v.json \in {"absent", "null"} -> FALSE
    [] v.json = "number" -> v.n # 0
    [] v.json = "string" -> TRUE
    [] v.json = "object" -> \E i \in DOMAIN v.f : v.f[i].json # "absent"

\* dict.get(key, 0): the value of the key, null included, 0 when missing.
get(v, i) == IF v.f[i].json = "absent" THEN JNum(0) ELSE v.f[i]

\* "key in v" for one of the keys at the positions keys; "raises" for an int.
in(keys, v) ==
  CASE v.json = "number" -> "raises"
    [] v.json = "string" -> IF v.has_key THEN "True" ELSE "False"
    [] v.json = "object" ->
         IF \E i \in keys : v.f[i].json # "absent" THEN "True" ELSE "False"

\* a + b + c of Python: a TypeError unless all are numbers.
sum(a, b, c) ==
  IF {a.json, b.json, c.json} = {"number"}
  THEN Returned(a, b, JNum(a.n + b.n + c.n))
  ELSE Raised

_extract_token_usage(response_data) ==
  LET usage == response_data.usage
      openai == IF truthy(usage) THEN in({1}, usage) ELSE "False"
      tokens == IF truthy(response_data.tokens) THEN response_data.tokens
                ELSE response_data.info_tokens
      info_raises == /\ ~truthy(response_data.tokens)
                     /\ response_data.info.json \notin {"absent", "object"}
      other == IF truthy(tokens) THEN in({1, 2}, tokens) ELSE "False"
  IN  CASE openai = "raises" -> Raised
        [] openai = "True" ->
             IF usage.json # "object" THEN Raised
             ELSE Returned(get(usage, 1), get(usage, 2), get(usage, 3))
        [] info_raises -> Raised
        [] other = "raises" -> Raised
        [] other = "True" ->
             IF tokens.json # "object" THEN Raised
             ELSE sum(get(tokens, 1), get(tokens, 2), get(tokens, 3))
        [] OTHER -> Returned(JNum(0), JNum(0), JNum(0))

(***************************************************************************)
(* The last operation, for the properties.                                 *)
(***************************************************************************)
NoObs ==
  [op |-> "", task |-> None, force |-> FALSE, first |-> FALSE,
   marked |-> FALSE, unchanged |-> FALSE, reset |-> FALSE, fresh |-> FALSE,
   rules_selected |-> FALSE, rules_same |-> FALSE, rules_ok |-> FALSE,
   sent |-> "none", raised |-> FALSE, path |-> "", raw |-> NoRaw,
   reply |-> NoReply, data |-> NoData, counts |-> NoCounts]

\* The operation op and what held before it.  sent says whether the Request
\* of a send_task was transmitted ("yes", "no"); a worker's is sent "later".
\* raised says that the operation ended in an exception instead of a return.
\* Of a reply that was parsed, raw is its text, reply the object the provider
\* put into it and path the code that received it; data is the reply's usage
\* data and counts what _extract_token_usage made of it.
Observed(op, task, force, sent) ==
  [op |-> op, task |-> task, force |-> force, first |-> first_interaction,
   marked |-> h_marked, unchanged |-> h_unchanged, reset |-> h_reset,
   fresh |-> h_fresh, rules_selected |-> h_rules_selected,
   rules_same |-> (h_rules_ok # "no"), rules_ok |-> (h_rules_ok = "sent"),
   sent |-> sent, raised |-> FALSE, path |-> "", raw |-> NoRaw,
   reply |-> NoReply, data |-> NoData, counts |-> NoCounts]

\* The operations that build a Request.
Builds == {"send_task", "_run_task_async"}

\* The state change of _build_request(task, ...) that yields b.
Build(b, task) ==
  /\ current_task' = task
  /\ artifact_checksums' = b.checksums
  /\ first_interaction' = b.first
  /\ rules_checksum' = b.rules_checksum
  /\ last_content' = [k \in Kinds |-> UpdatedLast(b.request, k)]
  /\ rules_sent' = (rules_sent \/ Truthy(b.request.rules_content))
  /\ request' = b.request
  /\ h_marked' = (h_marked /\ h_kind \notin Included(b.request))
  /\ h_unchanged' = (h_unchanged \/ h_kind \in Included(b.request))
  /\ h_reset' = (h_reset /\ h_kind \notin Included(b.request))
  /\ h_fresh' = FALSE
  /\ h_rules_selected' = FALSE

(***************************************************************************)
(* What a backend hands back for one request: the Response, and whether    *)
(* the Request was transmitted to the provider before it was produced.     *)
(***************************************************************************)
Failure(kind, assistant_message) ==
  [NoResponse EXCEPT !.error_message = Error(kind),
                     !.assistant_message = assistant_message]

\* A reply that parsed: success, with the proposals the reply held.
Reply(assistant_message, total_tokens, text, json, code) ==
  [success |-> TRUE, error_message |-> NoError,
   assistant_message |-> assistant_message, total_tokens |-> total_tokens,
   procedure_text |-> text, procedure_json |-> json, test_code |-> code]

Replace == [mode |-> "replace", content |-> "new"]

\* _parse_response_data(data, response, expected_task).
_parse_response_data(data) ==
  Reply(Str(data.assistant_message), 0,
        _parse_proposal(data.proposals.procedure_text),
        _parse_proposal(data.proposals.procedure_json),
        _parse_proposal(data.proposals.test_code))

\* parse(raw_response, expected_task).
parse(raw_response) ==
  LET json_content == _extract_json(raw_response)
  IN  IF json_content = NoList
      THEN Failure("no_json", _extract_text_message(raw_response))
      ELSE IF ~IsJson(json_content)
      THEN Failure("invalid_json", _extract_text_message(raw_response))
      ELSE _parse_response_data(loads(json_content))

(***************************************************************************)
(* Operations of TabContext.                                               *)
(***************************************************************************)
\* h_rules_ok after a build: "sent" once the rules went out in a send that
\* succeeded, "built" when they were only included in a Request.
RulesHistory(req, success) ==
  IF req.rules_content = None THEN h_rules_ok
  ELSE IF success THEN "sent"
  ELSE IF h_rules_ok = "sent" THEN "sent" ELSE "built"

\* h_rules_ok after a reset: the rules go out again with the next Request.
RulesResent == IF h_rules_ok = "no" THEN "no" ELSE "built"

\* send_task(task, user_message, strict_mode), the backend answering out.
\* "self.cumulative_tokens += response.total_tokens" raises TypeError when
\* the count is None: the assistant message is appended by then, the total
\* keeps its value and the caller receives no Response.
SendTask(task, user_message, strict_mode, out) ==
  LET b == _build_request(task, user_message, strict_mode, FALSE)
      validated == IF out.response.success
                   THEN _validate_contract(out.response, task)
                   ELSE out.response
      recorded == validated.success /\ Truthy(validated.assistant_message)
      raises == recorded /\ validated.total_tokens = NoTokens
      with_user == IF Truthy(user_message) THEN Append(messages, "user")
                   ELSE messages
  IN  /\ worker = "none"
      /\ Len(with_user) + (IF recorded THEN 1 ELSE 0) <= MaxMessages
      /\ cumulative_tokens + validated.total_tokens <= MaxTokens
      /\ Build(b, task)
      /\ messages' = IF recorded THEN Append(with_user, "assistant") ELSE with_user
      /\ cumulative_tokens' = IF recorded /\ ~raises
                              THEN cumulative_tokens + validated.total_tokens
                              ELSE cumulative_tokens
      /\ response' = IF raises THEN NoResponse ELSE validated
      /\ obs' = [Observed("send_task", task, FALSE,
                          IF out.sent THEN "yes" ELSE "no")
                   EXCEPT !.raised = raises,
                          !.reply = IF "reply" \in DOMAIN out THEN out.reply
                                    ELSE NoReply]
      /\ h_rules_ok' = RulesHistory(b.request, validated.success)
      /\ UNCHANGED <<tab_id, content, rule_files, tab_config, worker, h_kind>>
      /\ UNCHANGED <<backend_vars, service_vars>>

\* What an operation that builds no Request leaves of the last one.
Idle ==
  /\ request' = NoRequest
  /\ response' = NoResponse
  /\ obs' = NoObs
  /\ UNCHANGED <<backend_vars, service_vars>>

\* The fields of the TabContext that reset_conversation assigns.
Self ==
  [messages |-> messages, cumulative_tokens |-> cumulative_tokens,
   first_interaction |-> first_interaction,
   artifact_checksums |-> artifact_checksums,
   rules_checksum |-> rules_checksum, last_content |-> last_content,
   rules_sent |-> rules_sent]

\* A reset that keeps the artifact checksums.
reset_keeping_checksums(self) ==
  [self EXCEPT !.messages = <<>>,
               !.cumulative_tokens = 0,
               !.first_interaction = TRUE,
               !.rules_checksum = None,
               !.last_content = [k \in Kinds |-> None],
               !.rules_sent = FALSE]

\* A reset that flips the first-interaction flag.
reset_flipping_first(self) ==
  [self EXCEPT !.messages = <<>>,
               !.cumulative_tokens = 0,
               !.first_interaction = ~self.first_interaction,
               !.artifact_checksums = [k \in Kinds |-> None],
               !.rules_checksum = None,
               !.last_content = [k \in Kinds |-> None],
               !.rules_sent = FALSE]

reset_conversation(self) ==
  [self EXCEPT !.messages = <<>>,
               !.cumulative_tokens = 0,
               !.first_interaction = TRUE,
               !.artifact_checksums = [k \in Kinds |-> None],
               !.rules_checksum = None,
               !.last_content = [k \in Kinds |-> None],
               !.rules_sent = FALSE]

ResetConversation ==
  LET self == reset_conversation(Self)
  IN  /\ messages' = self.messages
      /\ cumulative_tokens' = self.cumulative_tokens
      /\ first_interaction' = self.first_interaction
      /\ artifact_checksums' = self.artifact_checksums
      /\ rules_checksum' = self.rules_checksum
      /\ last_content' = self.last_content
      /\ rules_sent' = self.rules_sent
      /\ request' = NoRequest
      /\ response' = NoResponse
      /\ obs' = [NoObs EXCEPT !.op = "reset_conversation"]
      /\ h_reset' = TRUE
      /\ h_fresh' = TRUE
      /\ h_rules_ok' = RulesResent
      /\ UNCHANGED <<tab_id, content, rule_files, tab_config, current_task,
                     worker, h_kind, h_marked, h_unchanged, h_rules_selected>>
      /\ UNCHANGED <<backend_vars, service_vars>>

\* The optimization state reset_backend and update_backend_factory clear.
ResetOptimizationState ==
  /\ last_content' = [k \in Kinds |-> None]
  /\ rules_sent' = FALSE
  /\ first_interaction' = TRUE

\* reset_backend()
ResetBackend ==
  /\ ResetOptimizationState
  /\ Idle
  /\ h_rules_ok' = RulesResent
  /\ UNCHANGED <<tab_id, content, rule_files, tab_config, messages,
                 cumulative_tokens, artifact_checksums, rules_checksum,
                 current_task, worker, h_kind, h_marked, h_unchanged, h_reset,
                 h_fresh, h_rules_selected>>

\* update_backend_factory(new_factory)
UpdateBackendFactory ==
  /\ ResetOptimizationState
  /\ Idle
  /\ h_rules_ok' = RulesResent
  /\ UNCHANGED <<tab_id, content, rule_files, tab_config, messages,
                 cumulative_tokens, artifact_checksums, rules_checksum,
                 current_task, worker, h_kind, h_marked, h_unchanged, h_reset,
                 h_fresh, h_rules_selected>>

\* mark_artifact_modified(artifact_name)
MarkArtifactModified(artifact_name) ==
  /\ artifact_checksums' = [artifact_checksums EXCEPT ![artifact_name] = None]
  /\ Idle
  /\ h_marked' = (h_marked \/ artifact_name = h_kind)
  /\ UNCHANGED <<tab_id, content, rule_files, tab_config, messages,
                 cumulative_tokens, first_interaction, rules_checksum,
                 current_task, last_content, rules_sent, worker, h_kind,
                 h_unchanged, h_reset, h_fresh, h_rules_selected, h_rules_ok>>

\* h_rules_ok when the selection or a rule file changes.
RulesTouched(same_text, same_selection) ==
  IF ~same_text THEN "no"
  ELSE IF same_selection THEN h_rules_ok
  ELSE IF h_rules_ok = "no" THEN "no" ELSE "built"

\* set_selected_rules(rule_filenames)
SetSelectedRules(rule_filenames) ==
  /\ tab_config' = rule_filenames
  /\ rules_checksum' = None
  /\ Idle
  /\ h_rules_selected' = TRUE
  /\ rule_files' = rule_files
  /\ h_rules_ok' = RulesTouched(get_selected_rules_content' = get_selected_rules_content,
                                FALSE)
  /\ UNCHANGED <<tab_id, content, messages, cumulative_tokens,
                 artifact_checksums, first_interaction, current_task,
                 last_content, rules_sent, worker, h_kind, h_marked,
                 h_unchanged, h_reset, h_fresh>>

\* update_managers(artifact_manager): the tab's configuration is read again
\* and the artifacts are those of the new manager.
UpdateManagers(cfg, loaded) ==
  /\ tab_config' = cfg
  /\ rules_checksum' = IF cfg # tab_config THEN None ELSE rules_checksum
  /\ content' = loaded
  /\ Idle
  /\ h_unchanged' = (h_unchanged /\ loaded[h_kind] = content[h_kind])
  /\ rule_files' = rule_files
  /\ h_rules_ok' = RulesTouched(get_selected_rules_content' = get_selected_rules_content,
                                cfg = tab_config)
  /\ UNCHANGED <<tab_id, messages, cumulative_tokens,
                 artifact_checksums, first_interaction, current_task,
                 last_content, rules_sent, worker, h_kind, h_marked, h_reset,
                 h_fresh, h_rules_selected>>

(***************************************************************************)
(* The collaborators: the artifact store and the rules directory.          *)
(***************************************************************************)
\* artifact_manager.set_content(kind, c), c another content than the present.
SetContent(k, c) ==
  /\ c # content[k]
  /\ content' = [content EXCEPT ![k] = c]
  /\ Idle
  /\ h_unchanged' = (h_unchanged /\ k # h_kind)
  /\ UNCHANGED <<tab_id, rule_files, tab_config, messages, cumulative_tokens,
                 artifact_checksums, first_interaction, rules_checksum,
                 current_task, last_content, rules_sent, worker, h_kind,
                 h_marked, h_reset, h_fresh, h_rules_selected, h_rules_ok>>

\* A rule file is written, created or deleted.
EditRuleFile(f, t) ==
  /\ t # rule_files[f]
  /\ rule_files' = [rule_files EXCEPT ![f] = t]
  /\ Idle
  /\ tab_config' = tab_config
  /\ h_rules_ok' = RulesTouched(get_selected_rules_content' = get_selected_rules_content,
                                TRUE)
  /\ UNCHANGED <<tab_id, content, messages, cumulative_tokens,
                 artifact_checksums, first_interaction, rules_checksum,
                 current_task, last_content, rules_sent, worker, h_kind,
                 h_marked, h_unchanged, h_reset, h_fresh, h_rules_selected>>

(***************************************************************************)
(* The asynchronous path of a tab.                                         *)
(***************************************************************************)
\* _run_task_async(task, **kwargs) with the chat panel's force mode.  A worker
\* still running is cancelled and waited for; its Response is dropped.
_run_task_async(task, user_message, strict_mode, force) ==
  LET b == _build_request(task, user_message, strict_mode, force)
  IN  /\ Len(messages) + 1 <= MaxMessages
      /\ Build(b, task)
      /\ messages' = Append(messages, "user")
      /\ worker' = "running"
      /\ response' = NoResponse
      /\ obs' = Observed("_run_task_async", task, force, "later")
      /\ h_rules_ok' = RulesHistory(b.request, FALSE)
      /\ UNCHANGED <<tab_id, content, rule_files, tab_config, cumulative_tokens,
                     h_kind>>

\* The same, the worker taken as one step that ends with WorkerFinished.
RunTaskAsync(task, user_message, strict_mode, force) ==
  /\ _run_task_async(task, user_message, strict_mode, force)
  /\ UNCHANGED <<backend_vars, service_vars>>

\* _handle_llm_response(response), the slot of the worker's finished signal.
_handle_llm_response(out) ==
  /\ Len(messages) + 1 <= MaxMessages
  /\ cumulative_tokens + out.response.total_tokens <= MaxTokens
  /\ messages' = Append(messages, "assistant")
  /\ cumulative_tokens' = cumulative_tokens + out.response.total_tokens
  /\ worker' = "none"
  /\ request' = NoRequest
  /\ response' = out.response
  /\ obs' = [NoObs EXCEPT !.op = "_handle_llm_response"]
  /\ UNCHANGED <<tab_id, content, rule_files, tab_config, artifact_checksums,
                 first_interaction, rules_checksum, current_task, last_content,
                 rules_sent, h_kind, h_marked, h_unchanged, h_reset, h_fresh,
                 h_rules_selected, h_rules_ok>>

\* LLMWorker.run ends with finished(response): _handle_llm_response.
WorkerFinished(out) ==
  /\ worker = "running"
  /\ _handle_llm_response(out)
  /\ UNCHANGED <<backend_vars, service_vars>>

\* A backend on which no send_request was made.  attempt and last_error are
\* the locals of _send_with_retry; posts counts the HTTP requests made,
\* last_reply is what the provider answered to the latest one, rate_limited
\* counts the 429 answers, blocked_cancel records a cancel() that came
\* while the request was out, early_cancel one that came before send_request
\* began, and result is what send_request returned.
NoBackend ==
  [pc |-> "idle", attempt |-> 0, last_error |-> None,
   cancel_requested |-> FALSE, posts |-> 0, last_reply |-> None,
   rate_limited |-> 0, blocked_cancel |-> FALSE, early_cancel |-> FALSE,
   result |-> NoResponse]

\* No LLMWorker.  pc is where run() is, cancelled is _cancelled, cancelled_at
\* the pc at which cancel() came, response what send_request returned.
\* waiting says that the GUI thread is inside wait() on this worker,
\* after_wait that the worker was started when such a wait() had returned,
\* and others counts the threads of earlier workers of the tab that have
\* not left run().
NoWorker ==
  [pc |-> "none", cancelled |-> FALSE, cancelled_at |-> "never",
   response |-> NoResponse, waiting |-> FALSE, after_wait |-> FALSE,
   others |-> 0]

\* isRunning(): the thread was started and has not left run().
isRunning(w) == w.pc \in {"start", "run", "returned", "checked"}

\* A wait() that returns at once.
no_wait(w) == TRUE

\* wait() returns: the thread has left run().
wait(w) == ~isRunning(w)

(***************************************************************************)
(* The session of one tab.                                                 *)
(***************************************************************************)
(* The OpenCode server: the processes of the machine, the manager shared    *)
(* by the tabs and the backend of each tab, as constructed.                 *)
(***************************************************************************)
\* The server processes that are started while the model runs.
MaxProcs == 3

Pids == 1..MaxProcs

\* No Popen object: _server_process is None; no listener on the port.
NoProcess == 0

\* A process that was never started.
NoProc == [state |-> "none", spawner |-> "none", by |-> "none"]

\* No process exists and nothing listens on server_port.
NoServers == [procs |-> [p \in Pids |-> NoProc], port |-> NoProcess]

\* OpenCodeServerManager.__init__; call is what the last call of each tab
\* returned, health, h_start and h_pid follow the calls made.
NoManager ==
  [_running |-> FALSE, _server_process |-> NoProcess, _lock |-> "free",
   call |-> [t \in Tabs |-> "idle"], health |-> "none",
   h_start |-> "none", h_pid |-> NoProcess]

\* OpenCodeBackend.__init__, for a tab that has created no backend yet.
NoOpenCode ==
  [created |-> FALSE, _running |-> FALSE, _session_id |-> FALSE,
   _server_process |-> NoProcess, _lock |-> "free", pc |-> "idle",
   returned |-> "none", h_server |-> NoProcess]

\* No prompt was built.
NoPrompt == [built |-> FALSE, request |-> <<>>, contract |-> None,
             sections |-> <<>>]

(***************************************************************************)
TabKinds == Range(get_allowed_artifacts(tab_id))

\* After TabContext.__init__: nothing sent, the editors empty, one rule file,
\* all rules selected.
Init ==
  /\ tab_id \in Tabs
  /\ content = [k \in Kinds |-> ""]
  /\ rule_files = [f \in Range(RuleNames) |-> "x"]
  /\ tab_config = ALL
  /\ messages = <<>>
  /\ cumulative_tokens = 0
  /\ artifact_checksums = [k \in Kinds |-> None]
  /\ first_interaction = TRUE
  /\ rules_checksum = None
  /\ current_task = None
  /\ last_content = [k \in Kinds |-> None]
  /\ rules_sent = FALSE
  /\ worker = "none"
  /\ request = NoRequest
  /\ response = NoResponse
  /\ obs = NoObs
  /\ h_kind \in Range(get_allowed_artifacts(tab_id))
  /\ h_marked = FALSE
  /\ h_unchanged = FALSE
  /\ h_reset = FALSE
  /\ h_fresh = FALSE
  /\ h_rules_selected = FALSE
  /\ h_rules_ok = "no"
  /\ backend = NoBackend
  /\ llm_worker = NoWorker
  /\ signals = <<>>
  /\ manager = NoManager
  /\ opencode = [t \in Tabs |-> NoOpenCode]
  /\ servers = NoServers
  /\ prompt = NoPrompt

\* The backend is not running: nothing is transmitted.
NotRunning == [sent |-> FALSE, response |-> Failure("not_running", "")]

\* The request went out and no reply came in time.
TimedOut == [sent |-> TRUE, response |-> Failure("timeout", "")]

\* A reply without proposals.
Answered == [sent |-> TRUE,
             response |-> Reply("ok", 1, NoProposal, NoProposal, NoProposal)]

Outcomes == {NotRunning, TimedOut, Answered}

\* One task of the tab for each list of required artifacts.
InclusionTasks(tab) ==
  CASE tab = "text_json" ->
         {"derive_json_from_text", "render_text_from_json", "review_text_vs_json"}
    [] tab = "json_code" ->
         {"generate_code_from_json", "derive_json_from_code", "review_code_vs_json"}

\* The text a task is sent with: the chat box sends the user's words.
UserMessage(task) == IF task = "ad_hoc_chat" THEN "hi" ELSE ""

\* TabContext.send_task with the editors, marks and resets around it.
Next ==
  \/ \E task \in InclusionTasks(tab_id), out \in Outcomes :
       SendTask(task, "", FALSE, out)
  \/ ResetConversation
  \/ ResetBackend
  \/ UpdateBackendFactory
  \/ \E k \in TabKinds : MarkArtifactModified(k)
  \/ \E k \in TabKinds, c \in Contents : SetContent(k, c)

Spec == Init /\ [][Next]_vars

\* The tab's own path: a worker per task, the chat panel's force mode.
NextAsync ==
  \/ \E task \in InclusionTasks(tab_id) \cup {"ad_hoc_chat"}, force \in BOOLEAN :
       RunTaskAsync(task, UserMessage(task), FALSE, force)
  \/ \E out \in Outcomes : WorkerFinished(out)
  \/ ResetConversation
  \/ ResetBackend
  \/ \E k \in TabKinds : MarkArtifactModified(k)
  \/ \E k \in TabKinds, c \in Contents : SetContent(k, c)

SpecAsync == Init /\ [][NextAsync]_vars

\* The rules of the tab change: selection, files, project.
RulesTasks(tab) ==
  CASE tab = "text_json" -> {"derive_json_from_text"}
    [] tab = "json_code" -> {"derive_json_from_code"}

Loaded == {[k \in Kinds |-> ""], [k \in Kinds |-> "a"]}

NextRules ==
  \/ \E task \in RulesTasks(tab_id), out \in {NotRunning, Answered} :
       SendTask(task, "", FALSE, out)
  \/ \E rule_filenames \in RuleLists : SetSelectedRules(rule_filenames)
  \/ \E f \in Range(RuleNames), t \in RuleTexts \cup {None} : EditRuleFile(f, t)
  \/ \E cfg \in RuleLists \cup {ALL}, loaded \in Loaded : UpdateManagers(cfg, loaded)
  \/ ResetConversation

SpecRules == Init /\ [][NextRules]_vars

\* Replies that parsed, with or without each proposal.
Proposals == {NoProposal, Replace, [mode |-> "", content |-> "new"]}

ParsedReplies ==
  {[sent |-> TRUE, response |-> Reply("ok", 1, text, json, code)] :
     text \in Proposals, json \in Proposals, code \in Proposals}

NextContract ==
  \/ \E task \in TabTasks(tab_id), out \in ParsedReplies :
       SendTask(task, "", FALSE, out)
  \/ ResetConversation

SpecContract == Init /\ [][NextContract]_vars

(***************************************************************************)
(* Properties.  h_kind is the artifact kind k of a property; obs holds     *)
(* what was true of k and of the rules before the last operation.          *)
(***************************************************************************)
\* The last operation built a Request.
Built == obs.op \in Builds

\* The kinds the task of the last Request requires.
RequiredNow == Range(_get_required_artifacts_for_task(request.task))

\* Every required kind with non-empty content is in the last Request.
AllRequiredIncluded ==
  \A k \in RequiredNow : Truthy(content[k]) => Field(request, k) = content[k]

\* The rules text, when non-empty, is in the last Request.
RulesIncluded ==
  Truthy(get_selected_rules_content)
    => request.rules_content = get_selected_rules_content

\* C1: if mark_artifact_modified(k) was called since k was last included,
\* the next Request for a task requiring k, k's content non-empty, holds k's
\* content.
C1_MarkedIsIncluded ==
  (Built /\ obs.marked /\ h_kind \in RequiredNow /\ Truthy(content[h_kind]))
    => Field(request, h_kind) = content[h_kind]

\* k was marked, its content is what was last included, force is not set and
\* the first-interaction flag was false: k is in the Request.
C1_Witness ==
  /\ Built /\ obs.marked /\ obs.unchanged /\ ~obs.force /\ ~obs.first
  /\ Truthy(content[h_kind])
  /\ Field(request, h_kind) = content[h_kind]

\* C2 as stated: k unchanged since last included, no force, not the first
\* interaction, not marked since: the next Request requiring k omits k.
C2_UnchangedIsOmitted ==
  (Built /\ obs.unchanged /\ ~obs.force /\ ~obs.first /\ ~obs.marked
     /\ h_kind \in RequiredNow)
    => Field(request, h_kind) = None

\* C2 amended: as C2, when moreover reset_conversation() was not called since
\* k was last included, the next Request requiring k omits k.
C2_UnchangedIsOmittedUnlessReset ==
  (Built /\ obs.unchanged /\ ~obs.force /\ ~obs.first /\ ~obs.marked
     /\ ~obs.reset /\ h_kind \in RequiredNow)
    => Field(request, h_kind) = None

\* A send for a task requiring k, k non-empty and as last included, leaves k out.
C2_Witness ==
  /\ obs.op = "send_task" /\ obs.unchanged /\ ~obs.force /\ ~obs.first
  /\ ~obs.marked /\ ~obs.reset
  /\ h_kind \in RequiredNow /\ Truthy(content[h_kind])
  /\ Field(request, h_kind) = None

\* C3: the first-interaction flag becomes false only as the effect of a
\* successful send: a send_task that found the flag true and leaves it false
\* has succeeded.
C3_FirstUntilSuccess ==
  (obs.op = "send_task" /\ obs.first /\ ~first_interaction) => response.success

\* C4: a send_task whose Request is not transmitted (the backend is not
\* running) records or changes no artifact checksum and no rules checksum.
C4_ChecksumsOnlyWhenSent ==
  [][(obs'.op = "send_task" /\ obs'.sent = "no")
       => (artifact_checksums' = artifact_checksums
           /\ rules_checksum' = rules_checksum)]_vars

\* C5: with force set, the Request holds every required kind whose content is
\* non-empty and the non-empty rules text.
C5_ForceIncludesAll ==
  (Built /\ obs.force) => (AllRequiredIncluded /\ RulesIncluded)

\* Force makes the difference: k and the rules are as last included, k was not
\* marked, no reset happened and the flag was false.
C5_Witness ==
  /\ Built /\ obs.force /\ ~obs.first
  /\ obs.unchanged /\ ~obs.marked /\ ~obs.reset /\ obs.rules_same
  /\ Field(request, h_kind) = content[h_kind]
  /\ Truthy(request.rules_content)

\* C6: right after reset_conversation() the history is empty, the tokens are
\* 0, no checksum is stored and first-interaction is true; the next Request
\* built holds every required non-empty kind and the non-empty rules text.
C6_ResetResendsAll ==
  /\ obs.op = "reset_conversation"
       => /\ messages = <<>>
          /\ cumulative_tokens = 0
          /\ \A k \in Kinds : artifact_checksums[k] = None
          /\ rules_checksum = None
          /\ first_interaction
  /\ (Built /\ obs.fresh) => (AllRequiredIncluded /\ RulesIncluded)

\* The first Request after a reset holds k and the rules although neither
\* changed since they were last included.
C6_Witness ==
  /\ Built /\ obs.fresh /\ obs.unchanged /\ obs.rules_same /\ ~obs.marked
  /\ Field(request, h_kind) = content[h_kind]
  /\ Truthy(request.rules_content)

\* C7: reset_conversation() is idempotent: applied to the state it has just
\* left, it gives that state again.
C7_ResetIdempotent ==
  obs.op = "reset_conversation" => reset_conversation(Self) = Self

\* A reset of a session in which k had been included in a Request.
C7_Witness ==
  obs.op = "reset_conversation" /\ h_unchanged /\ current_task # None

\* C8: after set_selected_rules(list), the next Request built holds the rules
\* text when the content of the selected rules is non-empty.
C8_SelectionResendsRules ==
  (Built /\ obs.rules_selected) => RulesIncluded

\* The re-selected rules have the text last included, force is not set and
\* the first-interaction flag was false: the rules are in the Request.
C8_Witness ==
  /\ Built /\ obs.rules_selected /\ obs.rules_same /\ ~obs.force /\ ~obs.first
  /\ Truthy(request.rules_content)

\* C9: once the rules text went out in a successfully sent Request, every
\* later Request without force omits the rules while their content and the
\* selection are unchanged (and no reset intervened).
C9_RulesSentOnce ==
  (Built /\ obs.rules_ok /\ ~obs.force) => request.rules_content = None

\* The kinds outside the tab's allowed set whose proposal has a non-null mode.
Forbidden ==
  SelectSeq(<<"procedure_text", "procedure_json", "test_code">>,
            LAMBDA k : /\ Field(response, k).mode # None
                       /\ k \notin Range(get_allowed_artifacts(tab_id)))

\* C10: a reply with a proposal of non-null mode for a kind outside the tab's
\* allowed set yields success = false with the tab-level error naming the
\* offending kinds and the allowed set.
C10_TabContract ==
  (obs.op = "send_task" /\ obs.sent = "yes" /\ Forbidden # <<>>)
    => /\ ~response.success
       /\ response.error_message =
            [kind |-> "tab_contract", names |-> Forbidden,
             listed |-> get_allowed_artifacts(tab_id)]

\* The last operation was a send_task whose reply parsed.
Validated == obs.op = "send_task" /\ obs.sent = "yes"

\* The kinds the reply proposes (a proposal with a mode set) that are not in
\* the list permitted.
Unexpected(permitted) ==
  SelectSeq(<<"procedure_text", "procedure_json", "test_code">>,
            LAMBDA k : /\ Truthy(Field(response, k).mode)
                       /\ k \notin Range(permitted))

AllWithin(permitted) ==
  \A k \in Kinds : Field(response, k).mode # None => k \in Range(permitted)

\* C12: a parsed reply whose proposed kinds all lie in the tab's allowed set
\* and, when the task has a fixed expected set, in that set too, passes
\* validation: success stays true and no error is set; for ad_hoc_chat only
\* the allowed set counts.
C12_WithinContractPasses ==
  (/\ Validated
   /\ AllWithin(get_allowed_artifacts(tab_id))
   /\ TASK_OUTPUT_CONTRACTS(request.task) # NoList
        => AllWithin(TASK_OUTPUT_CONTRACTS(request.task)))
    => (response.success /\ response.error_message = NoError)

\* An ad_hoc_chat reply proposing both kinds of the tab passes.
C12_Witness ==
  /\ Validated /\ request.task = "ad_hoc_chat"
  /\ \A k \in TabKinds : Field(response, k) = Replace
  /\ response.success /\ response.error_message = NoError


(***************************************************************************)
(* The failures a backend reports, and the replies it accepts.             *)
(***************************************************************************)
\* NoneBackend.send_request: the backend is disabled, and says so in chat.
Disabled ==
  [sent |-> FALSE,
   response |-> Failure("disabled", "LLM backend is disabled.")]

\* A status other than 200.
ApiError == [sent |-> TRUE, response |-> Failure("api_error", "")]

\* The provider refused the prompt for its length.
ContextExceeded == [sent |-> TRUE, response |-> Failure("context_exceeded", "")]

\* The connection failed.
RequestFailed == [sent |-> TRUE, response |-> Failure("request_failed", "")]

\* cancel() was called while the request was out.
Cancelled == [sent |-> TRUE, response |-> Failure("cancelled", "")]

\* A reply of zero characters.
EmptyReply == [sent |-> TRUE, response |-> Failure("empty", "")]

\* A reply without a JSON object: its text becomes the assistant message.
Unparseable == [sent |-> TRUE, response |-> Failure("no_json", "text")]

\* Every retry was answered 429: last_error is unset, "Unknown error".
RateLimited == [sent |-> TRUE, response |-> Failure("unknown", "")]

\* A reply that proposes what the tab may not change.
OutOfContract ==
  [sent |-> TRUE, response |-> Reply("ok", 1, Replace, Replace, Replace)]

\* A reply whose usage object is {"prompt_tokens": 1, "total_tokens": null}.
NullUsage ==
  [sent |-> TRUE,
   response |-> Reply("ok", NoTokens, NoProposal, NoProposal, NoProposal)]

ErrorOutcomes ==
  {NotRunning, Disabled, TimedOut, ApiError, ContextExceeded, RequestFailed,
   Cancelled, EmptyReply, Unparseable, RateLimited, OutOfContract, Answered,
   NullUsage}

\* send_task under every failure a backend reports.
NextErrors ==
  \/ \E task \in InclusionTasks(tab_id), out \in ErrorOutcomes :
       SendTask(task, "", FALSE, out)
  \/ ResetConversation
  \/ \E k \in TabKinds : MarkArtifactModified(k)

SpecErrors == Init /\ [][NextErrors]_vars

\* C13: every send_task returns a Response and raises nothing, and a
\* Response that reports a failure carries an error message that is not
\* empty, whatever the backend answered.
C13_NeverRaises ==
  obs.op = "send_task" =>
    /\ ~obs.raised
    /\ ~response.success => response.error_message # NoError


\* C14: every send_task, with or without a user message and whether its
\* Response is a success or a failure, appends a user Message and then an
\* assistant Message, and adds the Response's total_tokens to the total.
C14_AppendsBoth ==
  [][obs'.op = "send_task" =>
       /\ messages' = messages \o <<"user", "assistant">>
       /\ cumulative_tokens' = cumulative_tokens + response'.total_tokens]_vars


(***************************************************************************)
(* The replies a provider sends, and the code that receives them.          *)
(***************************************************************************)
Wrappings ==
  {"bare", "fence_json", "fence", "prose_fence_json", "prose_fence",
   "envelope_text", "envelope_thinking"}

\* A fenced block, with prose around it or without.
Block(open, body, prose) ==
  LET block == <<open, NL>> \o body \o <<NL, Fence>>
  IN  IF prose THEN <<Prose, NL>> \o block \o <<NL, Prose>> ELSE block

\* The raw reply that carries the object o in the wrapping w.
Wrap(w, o) ==
  CASE w = "bare" -> Text(dumps(o))
    [] w = "fence_json" -> Text(Block(FenceJson, dumps(o), FALSE))
    [] w = "fence" -> Text(Block(Fence, dumps(o), FALSE))
    [] w = "prose_fence_json" -> Text(Block(FenceJson, dumps(o), TRUE))
    [] w = "prose_fence" -> Text(Block(Fence, dumps(o), TRUE))
    [] w = "envelope_text" -> Envelope(<<Part("text", dumps(o))>>)
    [] w = "envelope_thinking" -> Envelope(<<Part("thinking", dumps(o))>>)

\* Valid reply objects: any message, every kind proposed or every kind left
\* out.
ReplyObjects ==
  {ReplyObject(m, [k \in Kinds |-> e]) :
     m \in Texts, e \in {Absent, Entry("object", "replace", "new")}}

\* Replies that hold no object: nothing, a line end, prose.
PlainTexts == {<<>>, <<NL>>, <<Prose>>}

\* OpenCodeBackend._send_via_api, from the HTTP 200 on.
_send_via_api(raw_response) ==
  IF raw_response = Text(<<>>) THEN Failure("empty", "")
  ELSE parse(raw_response)

\* ExternalAPIBackend._parse_api_response, the message content given.
_parse_api_response(message_content) == parse(message_content)

Paths == {"parse", "_send_via_api", "_parse_api_response"}

\* The code of path receives raw, into which the provider put the object o.
Receive(path, raw, o) ==
  /\ response' = CASE path = "parse" -> parse(raw)
                   [] path = "_send_via_api" -> _send_via_api(raw)
                   [] path = "_parse_api_response" -> _parse_api_response(raw)
  /\ request' = NoRequest
  /\ obs' = [NoObs EXCEPT !.op = "parse", !.path = path, !.raw = raw,
                          !.reply = o]
  /\ UNCHANGED <<tab_id, content, rule_files, tab_config, messages,
                 cumulative_tokens, artifact_checksums, first_interaction,
                 rules_checksum, current_task, last_content, rules_sent,
                 worker, h_kind, h_marked, h_unchanged, h_reset, h_fresh,
                 h_rules_selected, h_rules_ok>>
  /\ UNCHANGED <<backend_vars, service_vars>>

NextParser ==
  \/ \E w \in Wrappings, o \in ReplyObjects : Receive("parse", Wrap(w, o), o)
  \/ \E path \in Paths, chars \in PlainTexts :
       Receive(path, Text(chars), NoReply)

SpecParser == Init /\ [][NextParser]_vars

\* The Response that a reply object stands for.
Equivalent(resp, o) ==
  /\ resp.success /\ resp.error_message = NoError
  /\ resp.assistant_message = Str(o.assistant_message)
  /\ \A k \in Kinds : Field(resp, k) = _parse_proposal(o.proposals[k])

\* C15: parse recovers the Response of a valid reply object from each
\* wrapping of it (bare, fenced with or without prose, part of an
\* envelope), whatever its string values contain.
C15_RoundTrip ==
  (obs.op = "parse" /\ obs.path = "parse"
     /\ \E w \in Wrappings : obs.raw = Wrap(w, obs.reply))
    => Equivalent(response, obs.reply)

\* C16: an empty raw reply yields, on every path that receives it, a failed
\* Response whose error says that the reply was empty.
C16_EmptyIsReported ==
  (obs.op = "parse" /\ obs.raw = Text(<<>>))
    => ~response.success /\ response.error_message = Error("empty")


(***************************************************************************)
(* send_task on replies whose proposal entries are complete or not.        *)
(***************************************************************************)
\* A task with an output contract and the chat, which has none.
ProposalTasks(tab) ==
  CASE tab = "text_json" -> {"derive_json_from_text", "ad_hoc_chat"}
    [] tab = "json_code" -> {"generate_code_from_json", "ad_hoc_chat"}

\* Bare replies: every combination of entries that are objects with a mode
\* or a content, and every entry the same for all kinds.
EntryReplies ==
  {ReplyObject(<<"a">>, p) :
     p \in [Kinds -> {e \in Entries : e.mode # None \/ e.content # None}]
            \cup {[k \in Kinds |-> e] : e \in Entries}}

\* The backend hands back what the parser made of the reply.
Parsed(o) ==
  [sent |-> TRUE, response |-> parse(Wrap("bare", o)), reply |-> o]

NextProposals ==
  \/ \E task \in ProposalTasks(tab_id), o \in EntryReplies :
       SendTask(task, "", FALSE, Parsed(o))
  \/ ResetConversation

SpecProposals == Init /\ [][NextProposals]_vars

\* The entry is there and lacks its mode or its content.
Incomplete(e) == e.given # "absent" /\ (e.mode = None \/ e.content = None)

\* C17: an entry whose mode or content is missing or null is parsed as no
\* proposal and the parse does not fail for it; the kind is not among the
\* kinds that tab-level or task-level validation reports.
C17_IncompleteIsNoProposal ==
  (obs.op = "send_task" /\ obs.sent = "yes") =>
    /\ response.error_message.kind \notin {"no_json", "invalid_json"}
    /\ \A k \in Kinds :
         Incomplete(obs.reply.proposals[k]) =>
           /\ Field(response, k) = NoProposal
           /\ k \notin Range(response.error_message.names)

C17_Witness ==
  /\ obs.op = "send_task" /\ obs.sent = "yes"
  /\ tab_id = "json_code" /\ request.task = "generate_code_from_json"
  /\ obs.reply.proposals.procedure_text = Entry("object", None, "new")
  /\ obs.reply.proposals.procedure_json = Entry("object", "replace", None)
  /\ obs.reply.proposals.test_code = Entry("object", "replace", "new")
  /\ response.success /\ response.test_code = Replace
  /\ response.procedure_text = NoProposal
  /\ response.procedure_json = NoProposal


(***************************************************************************)
(* ExternalAPIBackend.send_request, one statement of the retry loop at a   *)
(* time: cancel() may be called from another thread between any two.       *)
(***************************************************************************)
\* ExternalAPIConfig.retry_count.
retry_count == 2

\* What the provider does with one HTTP request: a status, no answer within
\* request_timeout, or no connection.
ProviderReplies == {"200", "429", "500", "timeout", "connection"}

\* The rest of the model, which a step of the backend leaves alone.
tab_vars ==
  <<tab_id, content, rule_files, tab_config, messages, cumulative_tokens,
    artifact_checksums, first_interaction, rules_checksum, current_task,
    last_content, rules_sent, worker, request, h_kind, h_marked, h_unchanged,
    h_reset, h_fresh, h_rules_selected, h_rules_ok>>

\* send_request up to the call of _send_with_retry: the flag is cleared, and
\* a backend that was not started answers at once.
send_request_called(running) ==
  /\ backend.pc \in {"idle", "done"}
  /\ backend' = [NoBackend EXCEPT
                   !.pc = IF running THEN "loop" ELSE "done",
                   !.early_cancel = running /\ backend.cancel_requested,
                   !.result = IF running THEN NoResponse
                              ELSE Failure("not_running", "")]

\* send_request called by the thread of the caller.
ApiSendRequest(running) ==
  /\ send_request_called(running)
  /\ UNCHANGED <<tab_vars, response, obs, llm_worker, signals>>
  /\ UNCHANGED service_vars

\* The loop goes on: requests.post is called and blocks.
ApiPost ==
  /\ backend.pc = "loop"
  /\ backend.attempt < retry_count + 1 /\ ~backend.cancel_requested
  /\ backend' = [backend EXCEPT !.pc = "blocked", !.posts = @ + 1]
  /\ UNCHANGED <<tab_vars, response, obs, llm_worker, signals>>
  /\ UNCHANGED service_vars

\* The loop ends, by range() or by break: last_error or "Unknown error".
ApiGiveUp ==
  /\ backend.pc = "loop"
  /\ backend.attempt = retry_count + 1 \/ backend.cancel_requested
  /\ backend' = [backend EXCEPT
                   !.pc = "returned",
                   !.result = IF backend.last_error = None
                              THEN Failure("unknown", "")
                              ELSE Failure(backend.last_error, "")]
  /\ UNCHANGED <<tab_vars, response, obs, llm_worker, signals>>
  /\ UNCHANGED service_vars

\* requests.post returns or raises: 200 is parsed and returned, 429 sleeps
\* and continues, everything else sets last_error; the loop goes round.
ApiReply(reply) ==
  /\ backend.pc = "blocked"
  /\ backend' =
       CASE reply = "200" ->
              [backend EXCEPT !.pc = "returned", !.last_reply = reply,
                              !.result = Answered.response]
         [] reply = "429" ->
              [backend EXCEPT !.pc = "loop", !.last_reply = reply,
                              !.attempt = @ + 1, !.rate_limited = @ + 1]
         [] OTHER ->
              [backend EXCEPT !.pc = "loop", !.last_reply = reply,
                              !.attempt = @ + 1,
                              !.last_error =
                                 CASE reply = "500" -> "api_error"
                                   [] reply = "timeout" -> "timeout"
                                   [] reply = "connection" -> "request_failed"]
  /\ UNCHANGED <<tab_vars, response, obs, llm_worker, signals>>
  /\ UNCHANGED service_vars

\* send_request after _send_with_retry: the flag is looked at once more.
send_request_returns ==
  /\ backend.pc = "returned"
  /\ backend' = [backend EXCEPT
                   !.pc = "done",
                   !.result = IF backend.cancel_requested
                              THEN Failure("cancelled", "")
                              ELSE backend.result]

\* send_request returns to its caller.
ApiReturn ==
  /\ send_request_returns
  /\ response' = backend'.result
  /\ obs' = [NoObs EXCEPT !.op = "send_request"]
  /\ UNCHANGED <<tab_vars, llm_worker, signals>>
  /\ UNCHANGED service_vars

\* cancel(), from another thread.
BackendCancel ==
  /\ ~backend.cancel_requested
  /\ backend' = [backend EXCEPT
                   !.cancel_requested = TRUE,
                   !.blocked_cancel = (backend.pc = "blocked")]
  /\ UNCHANGED <<tab_vars, response, obs, llm_worker, signals>>
  /\ UNCHANGED service_vars

NextRetry ==
  \/ \E running \in BOOLEAN : ApiSendRequest(running)
  \/ ApiPost
  \/ ApiGiveUp
  \/ \E reply \in ProviderReplies : ApiReply(reply)
  \/ ApiReturn
  \/ BackendCancel

SpecRetry == Init /\ [][NextRetry]_vars

\* C18: a further HTTP attempt is made only after a 429; after a timeout, a
\* connection error or another status no attempt follows.
C18_RetryOnlyAfter429 ==
  [][(backend.posts > 0 /\ backend'.posts = backend.posts + 1)
       => backend.last_reply = "429"]_vars

\* C19: a send_request makes at most retry_count + 1 HTTP attempts, and when
\* all of them were answered 429 it returns a failure that names the rate
\* limit or the network, not "Unknown error".
C19_BoundedAndClassified ==
  /\ backend.posts <= retry_count + 1
  /\ (backend.pc = "done" /\ backend.rate_limited = retry_count + 1
        /\ ~backend.cancel_requested)
       => /\ ~backend.result.success
          /\ backend.result.error_message.kind \in {"rate_limited", "request_failed"}

\* C28: when cancel() was called before send_request began on a started
\* backend, the flag is still set when the loop looks at it: no HTTP request
\* is made and send_request returns the failure "Request cancelled".
C28_EarlyCancelHonoured ==
  backend.early_cancel =>
    /\ backend.posts = 0
    /\ backend.cancel_requested
    /\ backend.pc = "done" => backend.result = Failure("cancelled", "")


(***************************************************************************)
(* LLMWorker: run() in its own thread, cancel() and the slots of its       *)
(* signals in the GUI thread.  A signal emitted in run() is queued and     *)
(* delivered when the GUI thread comes to it.                              *)
(***************************************************************************)
MaxSignals == 2

\* A signal of a worker; cancelled is the worker's _cancelled when it was
\* emitted.
Signal(name, resp, cancelled) ==
  [signal |-> name, response |-> resp, cancelled |-> cancelled]

\* _run_task_async finds the tab's worker running: cancel(), then wait().
CancelAndWait ==
  /\ isRunning(llm_worker) /\ ~llm_worker.waiting
  /\ llm_worker' = [llm_worker EXCEPT
                      !.waiting = TRUE,
                      !.cancelled = TRUE,
                      !.cancelled_at = IF llm_worker.cancelled THEN @
                                       ELSE llm_worker.pc]
  /\ UNCHANGED <<tab_vars, response, obs, backend, signals>>
  /\ UNCHANGED service_vars

\* _run_task_async: no worker is running, or wait() has returned; a new
\* worker is created and started.
StartWorker(task) ==
  /\ IF llm_worker.waiting THEN wait(llm_worker) ELSE ~isRunning(llm_worker)
  /\ backend.pc \in {"idle", "done"}
  /\ Len(signals) < MaxSignals
  /\ _run_task_async(task, UserMessage(task), FALSE, FALSE)
  /\ llm_worker' = [NoWorker EXCEPT
                      !.pc = "start",
                      !.after_wait = llm_worker.waiting,
                      !.others = llm_worker.others
                                   + IF isRunning(llm_worker) THEN 1 ELSE 0]
  /\ UNCHANGED <<backend, signals>>
  /\ UNCHANGED service_vars

\* run(): self._backend.send_request(self._request) is called.
WorkerCalls ==
  /\ llm_worker.pc = "start"
  /\ send_request_called(TRUE)
  /\ llm_worker' = [llm_worker EXCEPT !.pc = "run"]
  /\ UNCHANGED <<tab_vars, response, obs, signals>>
  /\ UNCHANGED service_vars

\* run(): send_request returns the Response.
WorkerReturns ==
  /\ llm_worker.pc = "run"
  /\ send_request_returns
  /\ llm_worker' = [llm_worker EXCEPT !.pc = "returned",
                                      !.response = backend'.result]
  /\ UNCHANGED <<tab_vars, response, obs, signals>>
  /\ UNCHANGED service_vars

\* run(): "if self._cancelled:" emits error and returns; otherwise run()
\* goes on to the emit of finished.
WorkerChecks ==
  /\ llm_worker.pc = "returned"
  /\ IF llm_worker.cancelled
     THEN /\ llm_worker' = [llm_worker EXCEPT !.pc = "done"]
          /\ signals' = Append(signals, Signal("error", NoResponse, TRUE))
     ELSE /\ llm_worker' = [llm_worker EXCEPT !.pc = "checked"]
          /\ signals' = signals
  /\ UNCHANGED <<tab_vars, response, obs, backend>>
  /\ UNCHANGED service_vars

\* run(): self.finished.emit(response).
WorkerEmits ==
  /\ llm_worker.pc = "checked"
  /\ llm_worker' = [llm_worker EXCEPT !.pc = "done"]
  /\ signals' = Append(signals, Signal("finished", llm_worker.response,
                                        llm_worker.cancelled))
  /\ UNCHANGED <<tab_vars, response, obs, backend>>
  /\ UNCHANGED service_vars

\* LLMWorker.cancel(), called by the GUI thread for the tab's worker.
CancelWorker ==
  /\ ~llm_worker.waiting
  /\ llm_worker.pc \notin {"none", "done"} /\ ~llm_worker.cancelled
  /\ llm_worker' = [llm_worker EXCEPT !.cancelled = TRUE,
                                      !.cancelled_at = llm_worker.pc]
  /\ UNCHANGED <<tab_vars, response, obs, backend, signals>>
  /\ UNCHANGED service_vars

\* The GUI thread delivers the signal at the head of its queue.
DeliverFinished ==
  /\ ~llm_worker.waiting
  /\ signals # <<>> /\ Head(signals).signal = "finished"
  /\ _handle_llm_response([response |-> Head(signals).response])
  /\ signals' = Tail(signals)
  /\ UNCHANGED <<backend, llm_worker>>
  /\ UNCHANGED service_vars

\* _handle_llm_error(error_message): the error is shown, nothing is applied.
DeliverError ==
  /\ ~llm_worker.waiting
  /\ signals # <<>> /\ Head(signals).signal = "error"
  /\ signals' = Tail(signals)
  /\ worker' = "none"
  /\ request' = NoRequest
  /\ response' = NoResponse
  /\ obs' = [NoObs EXCEPT !.op = "_handle_llm_error"]
  /\ UNCHANGED <<tab_id, content, rule_files, tab_config, messages,
                 cumulative_tokens, artifact_checksums, first_interaction,
                 rules_checksum, current_task, last_content, rules_sent,
                 h_kind, h_marked, h_unchanged, h_reset, h_fresh,
                 h_rules_selected, h_rules_ok, backend, llm_worker>>
  /\ UNCHANGED service_vars

NextCancel ==
  \/ StartWorker("ad_hoc_chat")
  \/ WorkerCalls
  \/ ApiPost
  \/ ApiGiveUp
  \/ \E reply \in {"200", "429"} : ApiReply(reply)
  \/ WorkerReturns
  \/ WorkerChecks
  \/ WorkerEmits
  \/ CancelWorker
  \/ BackendCancel
  \/ DeliverFinished
  \/ DeliverError
  \/ ResetConversation

SpecCancel == Init /\ [][NextCancel]_vars

\* C20: a send_request during whose network call cancel() came returns the
\* failure "Request cancelled" and never the provider's reply, and no worker
\* emits finished when it was cancelled.
C20_CancelledIsDropped ==
  /\ (backend.pc = "done" /\ backend.blocked_cancel)
       => backend.result = Failure("cancelled", "")
  /\ \A i \in DOMAIN signals :
       signals[i].signal = "finished" => ~signals[i].cancelled


(***************************************************************************)
(* The workers of one tab: a task started while a worker is running.       *)
(***************************************************************************)
\* reset_conversation, which the GUI thread runs when it is not in wait().
ResetWhenFree == ~llm_worker.waiting /\ ResetConversation

NextWorkers ==
  \/ StartWorker("ad_hoc_chat")
  \/ CancelAndWait
  \/ WorkerCalls
  \/ ApiPost
  \/ ApiGiveUp
  \/ \E reply \in {"200", "429"} : ApiReply(reply)
  \/ WorkerReturns
  \/ WorkerChecks
  \/ WorkerEmits
  \/ DeliverFinished
  \/ DeliverError
  \/ ResetWhenFree

SpecWorkers == Init /\ [][NextWorkers]_vars

\* The worker threads of the tab that are inside run().
InFlight == (IF isRunning(llm_worker) THEN 1 ELSE 0) + llm_worker.others

\* C21: at most one worker of a tab is in flight; a task started while a
\* worker runs cancels that worker and starts its own only when the worker
\* has stopped, and no request waits behind another.
C21_OneWorkerInFlight ==
  /\ InFlight <= 1
  /\ llm_worker.waiting => llm_worker.cancelled
  /\ llm_worker.after_wait => llm_worker.others = 0

C21_Witness ==
  /\ llm_worker.pc = "start" /\ llm_worker.after_wait
  /\ signals # <<>> /\ signals[Len(signals)].signal = "error"
  /\ InFlight = 1

(***************************************************************************)
(* The server processes (subprocess.Popen, the port they listen on).       *)
(***************************************************************************)
\* The processes that run.
Alive == {p \in Pids : servers.procs[p].state = "alive"}

\* Pids not given to a process yet.
FreePids == {p \in Pids : servers.procs[p].state = "none"}

NextPid == CHOOSE p \in FreePids : \A q \in FreePids : p <= q

\* subprocess.Popen(cmd): a new process, not listening yet.
Popen(srv, pid, spawner) ==
  [srv EXCEPT !.procs[pid] = [NoProc EXCEPT !.state = "alive",
                                            !.spawner = spawner]]

\* terminate(), wait(), kill(): a running process ends, its port is freed.
terminate(srv, pid, by) ==
  IF pid = NoProcess \/ srv.procs[pid].state # "alive" THEN srv
  ELSE [srv EXCEPT !.procs[pid].state = "terminated",
                   !.procs[pid].by = by,
                   !.port = IF srv.port = pid THEN NoProcess ELSE srv.port]

\* GET {server_url}/health answers 200: some process listens on the port.
Health == servers.port # NoProcess

\* Popen.poll() is not None: the process has ended.
poll(pid) == servers.procs[pid].state # "alive"

\* A started process binds server_port, when no other process holds it.
ServerBinds(p) ==
  /\ p \in Alive /\ servers.port = NoProcess
  /\ servers' = [servers EXCEPT !.port = p]
  /\ UNCHANGED <<prog_vars, hist_vars, backend_vars, manager, opencode, prompt>>

\* A process ends by itself (the port is taken, a crash).
ServerExits(p) ==
  /\ p \in Alive
  /\ servers' = [servers EXCEPT
                   !.procs[p].state = "exited",
                   !.port = IF servers.port = p THEN NoProcess ELSE servers.port]
  /\ UNCHANGED <<prog_vars, hist_vars, backend_vars, manager, opencode, prompt>>

\* Somebody starts an OpenCode server outside the application.
ExternalServerStarts ==
  /\ FreePids # {} /\ servers.port = NoProcess
  /\ \A p \in Pids : servers.procs[p].spawner # "external"
  /\ servers' = [Popen(servers, NextPid, "external") EXCEPT !.port = NextPid]
  /\ UNCHANGED <<prog_vars, hist_vars, backend_vars, manager, opencode, prompt>>

(***************************************************************************)
(* OpenCodeServerManager (llm/server_manager.py).                          *)
(***************************************************************************)
\* threading.Lock.acquire(): "with self._lock" is entered when the lock is free.
acquire_unlocked(lock) == TRUE

acquire(lock) == lock = "free"

\* _stop_process(): ends the process the manager started, if it has one.
_stop_process(srv, mgr) == terminate(srv, mgr._server_process, "manager")

\* is_running, the value the property returns.
is_running(mgr) ==
  /\ mgr._running /\ mgr._server_process # NoProcess
  /\ ~poll(mgr._server_process)

\* The property is read by tab t: a process that has ended is forgotten.
ManagerIsRunning(t) ==
  /\ manager.call[t] # "waiting"
  /\ acquire(manager._lock)
  /\ manager' =
       IF ~manager._running \/ manager._server_process = NoProcess
       THEN [manager EXCEPT !.call[t] = "False"]
       ELSE IF poll(manager._server_process)
       THEN [manager EXCEPT !._running = FALSE,
                            !._server_process = NoProcess,
                            !.call[t] = "False"]
       ELSE [manager EXCEPT !.call[t] = "True"]
  /\ UNCHANGED <<prog_vars, hist_vars, backend_vars, opencode, servers, prompt>>

\* start() up to _wait_for_server(): returns True when running or when a
\* server answers, else starts a process and waits for it, holding the lock.
ManagerStart(t) ==
  /\ manager.call[t] # "waiting"
  /\ acquire(manager._lock)
  /\ IF manager._running /\ manager._server_process # NoProcess
     THEN /\ manager' = [manager EXCEPT !.call[t] = "True"]
          /\ UNCHANGED servers
     ELSE IF Health
     THEN /\ manager' = [manager EXCEPT !._running = TRUE,
                                        !.call[t] = "True",
                                        !.health = "none",
                                        !.h_start = "attached",
                                        !.h_pid = servers.port]
          /\ UNCHANGED servers
     ELSE \/ /\ FreePids # {}
             /\ servers' = Popen(servers, NextPid, "manager")
             /\ manager' = [manager EXCEPT !._server_process = NextPid,
                                           !._lock = t,
                                           !.call[t] = "waiting"]
          \/ \* Popen raises: _stop_process(), return False
             /\ servers' = _stop_process(servers, manager)
             /\ manager' = [manager EXCEPT !._server_process = NoProcess,
                                           !.call[t] = "False"]
  /\ UNCHANGED <<prog_vars, hist_vars, backend_vars, opencode, prompt>>

\* _wait_for_server() returns True: the health endpoint answered.
ManagerStartReady(t) ==
  /\ manager.call[t] = "waiting"
  /\ Health
  /\ manager' = [manager EXCEPT !._running = TRUE,
                                !._lock = "free",
                                !.call[t] = "True",
                                !.health = "none",
                                !.h_start = "spawned",
                                !.h_pid = manager._server_process]
  /\ UNCHANGED <<prog_vars, hist_vars, backend_vars, opencode, servers, prompt>>

\* _wait_for_server() returns False (the process died, startup_timeout).
ManagerStartFails(t) ==
  /\ manager.call[t] = "waiting"
  /\ ~Health
  /\ servers' = _stop_process(servers, manager)
  /\ manager' = [manager EXCEPT !._server_process = NoProcess,
                                !._lock = "free",
                                !.call[t] = "False"]
  /\ UNCHANGED <<prog_vars, hist_vars, backend_vars, opencode, prompt>>

\* stop(), called by tab t.
ManagerStop(t) ==
  /\ manager.call[t] # "waiting"
  /\ acquire(manager._lock)
  /\ servers' = _stop_process(servers, manager)
  /\ manager' = [manager EXCEPT !._running = FALSE,
                                !._server_process = NoProcess,
                                !.call[t] = "idle",
                                !.health = "none",
                                !.h_start = "none",
                                !.h_pid = NoProcess]
  /\ UNCHANGED <<prog_vars, hist_vars, backend_vars, opencode, prompt>>

\* health_check(): False when is_running is False, else GET /health.
ManagerHealthCheck(t) ==
  /\ manager.call[t] # "waiting"
  /\ acquire(manager._lock)
  /\ manager' =
       IF ~manager._running \/ manager._server_process = NoProcess
       THEN [manager EXCEPT !.call[t] = "False", !.health = "skipped"]
       ELSE IF poll(manager._server_process)
       THEN [manager EXCEPT !._running = FALSE,
                            !._server_process = NoProcess,
                            !.call[t] = "False",
                            !.health = "skipped"]
       ELSE [manager EXCEPT !.call[t] = IF Health THEN "True" ELSE "False",
                            !.health = "queried"]
  /\ UNCHANGED <<prog_vars, hist_vars, backend_vars, opencode, servers, prompt>>

NextManager ==
  \/ \E t \in Tabs :
       \/ ManagerIsRunning(t)
       \/ ManagerStart(t)
       \/ ManagerStartReady(t)
       \/ ManagerStartFails(t)
       \/ ManagerStop(t)
       \/ ManagerHealthCheck(t)
  \/ \E p \in Pids : ServerBinds(p) \/ ServerExits(p)
  \/ ExternalServerStarts

SpecManager == Init /\ [][NextManager]_vars

\* The running processes the manager started.
Spawned == {p \in Alive : servers.procs[p].spawner = "manager"}

\* C23: under every interleaving of start(), stop() and is_running of the
\* tabs, at most one running process was started by the manager, that
\* process is the one the manager holds, only the caller inside start()
\* holds the lock, and the manager terminates no process but its own.
C23_OneOwnedProcess ==
  /\ Cardinality(Spawned) <= 1
  /\ \A p \in Spawned : manager._server_process = p
  /\ \A t \in Tabs : manager.call[t] = "waiting" => manager._lock = t
  /\ \A p \in Pids : servers.procs[p].by = "manager"
                       => servers.procs[p].spawner = "manager"

\* Both tabs have called start(): one started the process, the other got
\* True without starting one, while a server outside the application had
\* ended before.
C23_Witness ==
  /\ \A t \in Tabs : manager.call[t] = "True"
  /\ manager.h_start = "spawned"
  /\ Cardinality(Spawned) = 1
  /\ \E p \in Pids : servers.procs[p].spawner = "external"

\* The server that start() found or started is still there.
ServerPresent ==
  manager.h_pid # NoProcess /\ servers.procs[manager.h_pid].state = "alive"

\* C27: once start() has returned True, by starting the process or by
\* attaching to a server that was running, is_running is True and
\* health_check() queries the endpoint, until stop() or the server ends.
C27_RunningAfterStart ==
  (manager.h_start # "none" /\ ServerPresent)
    => (is_running(manager) /\ manager.health # "skipped")

(***************************************************************************)
(* OpenCodeBackend of a tab (llm/opencode_backend.py) and the factory      *)
(* that creates it (llm/backend_factory.py).                               *)
(***************************************************************************)
\* _create_opencode_backend(tab_id), after is_running or start() of the
\* manager returned True to the tab: a new OpenCodeBackend.
CreateBackend(t) ==
  /\ ~opencode[t].created
  /\ manager.call[t] = "True"
  /\ opencode' = [opencode EXCEPT ![t] = [NoOpenCode EXCEPT !.created = TRUE]]
  /\ manager' = [manager EXCEPT !.call[t] = "idle"]
  /\ UNCHANGED <<prog_vars, hist_vars, backend_vars, servers, prompt>>

\* stop(), the statements inside "with self._lock".
stopped(b) ==
  [b EXCEPT !._running = FALSE, !._session_id = FALSE,
            !._server_process = NoProcess]

\* The start of start(): "with self._lock", the _running test and Popen;
\* when Popen raises the handler calls self.stop() inside the lock.
started(t, b) ==
  IF b._running
  THEN /\ opencode' = [opencode EXCEPT ![t] = [b EXCEPT !.returned = "True"]]
       /\ UNCHANGED servers
  ELSE \/ /\ FreePids # {}
          /\ servers' = Popen(servers, NextPid, t)
          /\ opencode' = [opencode EXCEPT ![t] =
                            [b EXCEPT !._server_process = NextPid,
                                      !._lock = "held",
                                      !.pc = "waiting",
                                      !.returned = "none"]]
       \/ /\ opencode' = [opencode EXCEPT ![t] =
                            [b EXCEPT !._lock = "held",
                                      !.pc = "failing",
                                      !.returned = "none"]]
          /\ UNCHANGED servers

\* start() is called on the backend of tab t.
OpenCodeStart(t) ==
  /\ opencode[t].created /\ opencode[t].pc = "idle"
  /\ acquire(opencode[t]._lock)
  /\ started(t, opencode[t])
  /\ UNCHANGED <<prog_vars, hist_vars, backend_vars, manager, prompt>>

\* _wait_for_server() returned True and _create_session() is called: with
\* a session id start() returns True, without one it calls self.stop().
OpenCodeReady(t) ==
  /\ opencode[t].pc = "waiting"
  /\ Health
  /\ \/ opencode' = [opencode EXCEPT ![t]._session_id = TRUE,
                                     ![t]._running = TRUE,
                                     ![t]._lock = "free",
                                     ![t].pc = "idle",
                                     ![t].returned = "True",
                                     ![t].h_server = servers.port]
     \/ opencode' = [opencode EXCEPT ![t].pc = "failing"]
  /\ UNCHANGED <<prog_vars, hist_vars, backend_vars, manager, servers, prompt>>

\* _wait_for_server() returned False: start() calls self.stop().
OpenCodeNotReady(t) ==
  /\ opencode[t].pc = "waiting"
  /\ ~Health
  /\ opencode' = [opencode EXCEPT ![t].pc = "failing"]
  /\ UNCHANGED <<prog_vars, hist_vars, backend_vars, manager, servers, prompt>>

\* stop(): called by the tab, or by start() on its failure paths; after
\* the latter start() returns False and leaves "with self._lock".
OpenCodeStop(t) ==
  /\ opencode[t].created /\ opencode[t].pc \in {"idle", "failing"}
  /\ acquire(opencode[t]._lock)
  /\ servers' = terminate(servers, opencode[t]._server_process, t)
  /\ opencode' = [opencode EXCEPT ![t] =
                    [stopped(opencode[t]) EXCEPT
                       !._lock = "free",
                       !.pc = "idle",
                       !.returned = IF opencode[t].pc = "failing"
                                    THEN "False" ELSE "none"]]
  /\ UNCHANGED <<prog_vars, hist_vars, backend_vars, manager, prompt>>

\* reset_session(): self.stop(), then self.start().
OpenCodeResetSession(t) ==
  /\ opencode[t].created /\ opencode[t].pc = "idle"
  /\ acquire(opencode[t]._lock)
  /\ LET srv == terminate(servers, opencode[t]._server_process, t)
         b == stopped(opencode[t])
     IN  \/ /\ FreePids # {}
            /\ servers' = Popen(srv, NextPid, t)
            /\ opencode' = [opencode EXCEPT ![t] =
                              [b EXCEPT !._server_process = NextPid,
                                        !._lock = "held",
                                        !.pc = "waiting",
                                        !.returned = "none"]]
         \/ /\ servers' = srv
            /\ opencode' = [opencode EXCEPT ![t] =
                              [b EXCEPT !._lock = "held",
                                        !.pc = "failing",
                                        !.returned = "none"]]
  /\ UNCHANGED <<prog_vars, hist_vars, backend_vars, manager, prompt>>

NextOpenCode ==
  \/ \E t \in Tabs :
       \/ ManagerIsRunning(t)
       \/ ManagerStart(t)
       \/ ManagerStartReady(t)
       \/ ManagerStartFails(t)
       \/ CreateBackend(t)
       \/ OpenCodeStart(t)
       \/ OpenCodeReady(t)
       \/ OpenCodeNotReady(t)
       \/ OpenCodeStop(t)
       \/ OpenCodeResetSession(t)
  \/ \E p \in Pids : ServerBinds(p) \/ ServerExits(p)

SpecOpenCode == Init /\ [][NextOpenCode]_vars

\* The running server processes the application started.
Started == {p \in Alive : servers.procs[p].spawner # "external"}

\* C22: over the creations, starts, session resets and stops of the tabs'
\* backends at most one server process of the application exists, and no
\* tab's stop() has terminated the server a running backend of another tab
\* holds its session on.
C22_OneSharedServer ==
  /\ Cardinality(Started) <= 1
  /\ \A t \in Tabs :
       (opencode[t]._running /\ opencode[t].h_server # NoProcess) =>
         servers.procs[opencode[t].h_server].by \notin (Tabs \ {t})

(***************************************************************************)
(* start() of one backend, with the thread inside start() kept running.    *)
(***************************************************************************)
\* The steps of the thread that is inside start() of the backend of tab t:
\* the wait ends, and self.stop() on a failure path enters "with self._lock".
InsideStart(t) ==
  \/ OpenCodeReady(t)
  \/ OpenCodeNotReady(t)
  \/ (opencode[t].pc = "failing" /\ OpenCodeStop(t))

NextStart ==
  \/ \E t \in {"text_json"} :
       \/ ManagerStart(t)
       \/ ManagerStartReady(t)
       \/ ManagerStartFails(t)
       \/ CreateBackend(t)
       \/ OpenCodeStart(t)
       \/ OpenCodeReady(t)
       \/ OpenCodeNotReady(t)
       \/ OpenCodeStop(t)
       \/ OpenCodeResetSession(t)
  \/ \E p \in Pids : ServerBinds(p) \/ ServerExits(p)

\* A thread that can take its next statement takes it: the interpreter
\* schedules every runnable thread.
SpecStart ==
  Init /\ [][NextStart]_vars /\ WF_vars(InsideStart("text_json"))

\* C26: every start() returns, with the lock released: a backend that is
\* inside start() is eventually outside it again, and on a failure path it
\* has returned False, not running, without session id or server process.
C26_StartReturns ==
  /\ (opencode["text_json"].pc # "idle") ~> (opencode["text_json"].pc = "idle")
  /\ [](opencode["text_json"].returned = "False" =>
          /\ ~opencode["text_json"]._running
          /\ ~opencode["text_json"]._session_id
          /\ opencode["text_json"]._server_process = NoProcess
          /\ opencode["text_json"]._lock = "free")

(***************************************************************************)
(* The token usage of replies that parsed, on both backends.               *)
(***************************************************************************)
\* The usage data of provider replies: one of the keys with every value, the
\* others missing, and the OpenCode shape under "info".
UsageData ==
  {Data(u, JAbsent, JAbsent, JAbsent) : u \in UsageValues}
    \cup {Data(JAbsent, t, JAbsent, JAbsent) : t \in UsageValues}
    \cup {Data(JAbsent, JAbsent, JObj(JAbsent, JAbsent, JAbsent), t) :
            t \in UsageValues}
    \cup {Data(JAbsent, JAbsent, i, JAbsent) : i \in {JNull, JStr(FALSE)}}
    \cup {Data(JObj(JAbsent, JNum(1), JNum(1)), JObj(JNum(1), JNum(1), JNum(1)),
               JAbsent, JAbsent)}

\* response.prompt_tokens, completion_tokens, total_tokens = the tuple.
assign_tokens(resp, r) ==
  [resp EXCEPT !.total_tokens = IF r.counts[3].json = "number"
                                THEN r.counts[3].n ELSE NoTokens]

\* ExternalAPIBackend._parse_api_response after the parse of the content:
\* "except Exception" turns an exception of the extraction into a failure.
_parse_api_response_usage(resp, response_data) ==
  LET r == _extract_token_usage(response_data)
  IN  IF r.raised THEN Failure("parse_api_response", "")
      ELSE assign_tokens(resp, r)

\* OpenCodeBackend._send_via_api after the parse: only JSONDecodeError and
\* KeyError are caught there, another exception reaches send_request, whose
\* "except Exception" returns "Request failed".
_send_via_api_usage(resp, response_data) ==
  LET r == _extract_token_usage(response_data)
  IN  IF r.raised THEN Failure("request_failed", "")
      ELSE assign_tokens(resp, r)

UsagePaths == {"_send_via_api", "_parse_api_response"}

\* A reply that parsed into a successful Response arrives with the usage
\* data response_data.
ReceiveUsage(path, response_data) ==
  /\ response' = IF path = "_send_via_api"
                 THEN _send_via_api_usage(Answered.response, response_data)
                 ELSE _parse_api_response_usage(Answered.response, response_data)
  /\ request' = NoRequest
  /\ obs' = [NoObs EXCEPT !.op = "tokens", !.path = path,
                          !.data = response_data,
                          !.counts = _extract_token_usage(response_data)]
  /\ UNCHANGED <<tab_id, content, rule_files, tab_config, messages,
                 cumulative_tokens, artifact_checksums, first_interaction,
                 rules_checksum, current_task, last_content, rules_sent,
                 worker, h_kind, h_marked, h_unchanged, h_reset, h_fresh,
                 h_rules_selected, h_rules_ok>>
  /\ UNCHANGED <<backend_vars, service_vars>>

NextTokens ==
  \E path \in UsagePaths, response_data \in UsageData :
    ReceiveUsage(path, response_data)

SpecTokens == Init /\ [][NextTokens]_vars

\* C24: for every usage data of a reply the extraction returns, three
\* numbers, and the Response that had parsed with success stays a success
\* with a number as its total.
C24_TokensNeverFail ==
  obs.op = "tokens" =>
    /\ ~obs.counts.raised
    /\ \A i \in DOMAIN obs.counts.counts : obs.counts.counts[i].json = "number"
    /\ response.success
    /\ response.total_tokens # NoTokens

(***************************************************************************)
(* PromptBuilder.build (llm/prompt_builder.py).  The prompt is held as the *)
(* list of sections that build joins with blank lines.                     *)
(***************************************************************************)
\* An LLMRequest as build reads it.
PromptRequest(strict_mode, session_summary, rules, json, code, text, user_message) ==
  [strict_mode |-> strict_mode, session_summary |-> session_summary,
   rules_content |-> rules.value, include_rules |-> rules.include,
   procedure_json |-> json.value, include_json |-> json.include,
   test_code |-> code.value, include_code |-> code.include,
   procedure_text |-> text.value, include_text |-> text.include,
   user_message |-> user_message]

\* A field of a request with its include flag.
Given(value, include) == [value |-> value, include |-> include]

\* sections.append(text) when the condition of the section holds.
Section(name, text, present) ==
  IF present THEN <<[name |-> name, text |-> text]>> ELSE <<>>

\* self.output_format, the default or the custom format.
output_format == "# Response Format"

\* The task instruction that _get_task_prompt returns.
task_instruction == "instruction"

\* The sections before the output format, as build appends them.
narrative(req) ==
  Section("task", "# Task\n" \o task_instruction, TRUE)
    \o Section("mode",
               IF req.strict_mode THEN "## Mode: STRICT" ELSE "## Mode: FORCE",
               TRUE)
    \o Section("summary",
               IF Truthy(req.session_summary)
               THEN "# Session Context\n" \o req.session_summary ELSE "",
               Truthy(req.session_summary))
    \o Section("rules",
               IF Truthy(req.rules_content)
               THEN "# Rules\n" \o req.rules_content ELSE "",
               Truthy(req.rules_content) /\ req.include_rules)
    \o Section("procedure_json",
               IF Truthy(req.procedure_json)
               THEN "# Current procedure.json\n" \o req.procedure_json ELSE "",
               Truthy(req.procedure_json) /\ req.include_json)
    \o Section("test_code",
               IF Truthy(req.test_code)
               THEN "# Current test.py\n" \o req.test_code ELSE "",
               Truthy(req.test_code) /\ req.include_code)
    \o Section("procedure_text",
               IF Truthy(req.procedure_text)
               THEN "# Current procedure_text.md\n" \o req.procedure_text
               ELSE "",
               Truthy(req.procedure_text) /\ req.include_text)
    \o Section("user", IF Truthy(req.user_message)
                       THEN "# User Message\n" \o req.user_message ELSE "",
               Truthy(req.user_message))

build_contract_first(req, output_contract_override) ==
  narrative(req)
    \o Section("contract",
               IF Truthy(output_contract_override)
               THEN output_contract_override ELSE "",
               Truthy(output_contract_override))
    \o Section("format", output_format, TRUE)

build(req, output_contract_override) ==
  narrative(req)
    \o Section("format", output_format, TRUE)
    \o Section("contract",
               IF Truthy(output_contract_override)
               THEN output_contract_override ELSE "",
               Truthy(output_contract_override))

\* Optional texts: None, empty, a text.
Optional(t) == {Given(None, TRUE), Given("", TRUE), Given(t, TRUE),
                Given(t, FALSE)}

\* Requests in strict mode with every choice of the optional fields, and
\* requests in force mode with all of them or none.
PromptRequests ==
  {PromptRequest(TRUE, session_summary, rules, json, code, text,
                 user_message) :
     session_summary \in {"", "summary"},
     rules \in Optional("rule"), json \in Optional("{}"),
     code \in {Given(None, TRUE), Given("code", TRUE)},
     text \in {Given(None, TRUE), Given("text", TRUE)},
     user_message \in {"", "hi"}}
    \cup {PromptRequest(FALSE, "summary", Given("rule", TRUE),
                        Given("{}", TRUE), Given("code", TRUE),
                        Given("text", TRUE), "hi"),
          PromptRequest(FALSE, "", Given(None, TRUE), Given(None, TRUE),
                        Given(None, TRUE), Given(None, TRUE), "")}

Contracts == {None, "", "# Output Contract"}

\* A backend builds the prompt of a request.
BuildPrompt(req, output_contract_override) ==
  /\ prompt' = [built |-> TRUE, request |-> req,
                contract |-> output_contract_override,
                sections |-> build(req, output_contract_override)]
  /\ UNCHANGED <<prog_vars, hist_vars, backend_vars, manager, opencode, servers>>

NextPrompt ==
  \E req \in PromptRequests, output_contract_override \in Contracts :
    BuildPrompt(req, output_contract_override)

SpecPrompt == Init /\ [][NextPrompt]_vars

\* The place of a section in the order of the specification.
Rank(name) ==
  CASE name = "task" -> 1
    [] name = "mode" -> 2
    [] name = "summary" -> 3
    [] name = "rules" -> 4
    [] name \in Kinds -> 5
    [] name = "user" -> 6
    [] name = "format" -> 7
    [] name = "contract" -> 8

Names(sections) == {sections[i].name : i \in DOMAIN sections}

NewSession ==
  /\ first_interaction /\ ~rules_sent
  /\ \A k \in Kinds : last_content[k] = None

\* C29: the Request built next after reset_backend or update_backend_factory
\* holds every required artifact whose content is not empty, and the rules
\* text when it is not empty, also when the contents are those sent before.
C29_NewSessionSeesAll ==
  [][(NewSession /\ obs'.op \in Builds) =>
       /\ \A k \in Range(_get_required_artifacts_for_task(request'.task)) :
            Truthy(content[k]) => Field(request', k) = content[k]
       /\ Truthy(get_selected_rules_content) =>
            request'.rules_content = get_selected_rules_content]_vars

(***************************************************************************)
(* The proposals a tab handles, on send_task and on the worker's path.     *)
(***************************************************************************)
\* Replies that parsed, every kind proposed or not.
OfferedReplies ==
  {[sent |-> TRUE, response |-> Reply("ok", 0, text, json, code)] :
     text \in {NoProposal, Replace}, json \in {NoProposal, Replace},
     code \in {NoProposal, Replace}}

\* The tasks that are started: one that expects a single kind, one that
\* expects two, and the chat, which expects none in particular.
HandledTasks(tab) ==
  CASE tab = "text_json" ->
         {"derive_json_from_text", "review_text_vs_json", "ad_hoc_chat"}
    [] tab = "json_code" ->
         {"generate_code_from_json", "review_code_vs_json", "ad_hoc_chat"}

\* The end of _handle_llm_response: nothing when the Response is a failure,
\* else _handle_<kind>_proposal for each kind of the tab that is proposed.
handled(tab, resp) ==
  IF ~resp.success THEN {}
  ELSE {k \in Range(get_allowed_artifacts(tab)) : Proposed(resp, k)}

NextHandled ==
  \/ \E task \in HandledTasks(tab_id), out \in OfferedReplies :
       SendTask(task, UserMessage(task), FALSE, out)
  \/ \E task \in HandledTasks(tab_id) :
       RunTaskAsync(task, UserMessage(task), FALSE, FALSE)
  \/ \E out \in OfferedReplies : WorkerFinished(out)
  \/ ResetConversation

SpecHandled == Init /\ [][NextHandled]_vars

\* C30: on send_task and on the worker's path alike, a proposal that is
\* handled is of a kind the tab allows and, when the current task expects
\* certain kinds, of one of them.
C30_ValidatedBeforeHandled ==
  obs.op \in {"send_task", "_handle_llm_response"} =>
    \A k \in handled(tab_id, response) :
      /\ k \in Range(get_allowed_artifacts(tab_id))
      /\ get_task_expected_artifacts(current_task) # NoList
           => k \in Range(get_task_expected_artifacts(current_task))

=============================================================================
